---- MODULE Spec2Model ----
(***************************************************************************)
(* Decal placement and compositing engine of the mockup visualizer.        *)
(*                                                                         *)
(* Two strategies, fixed for a model session:                              *)
(*   geometric : ModelWithDecals.onPointerDown, useDecals, useDecalDrag,   *)
(*               useDecalCommands (decal meshes in decalsGroup)            *)
(*   uv        : useUVPainter, useUVDecals, useUVDrag, useUVDecalCommands  *)
(*               (decals painted into one canvas per material)             *)
(*                                                                         *)
(* Units.  World lengths are in hundredths of a world unit (0.5 -> 50),    *)
(* offsets along the normal in thousandths (0.001 -> 1), angles in         *)
(* degrees, atlas coordinates in pixels, uv coordinates in quarters        *)
(* (uv 0.25 -> 1).  JS array indices are shifted by one (index 0 -> 1).    *)
(* The model node's world matrix is taken as fixed during a session, so a  *)
(* point stored in the hit object's local frame maps back to the world     *)
(* point it was taken from.                                                *)
(***************************************************************************)
EXTENDS Integers, Sequences, FiniteSets, TLC

VARIABLES
    strategy,        \* "geometric" | "uv": chosen once per model session
    synced,          \* useUVDecals.materialMapRef is the painter's map
    texts,           \* App: texts[]
    logos,           \* App: logos[] with the load state of each image
    assetSelection,  \* App: the armed asset, or NoAsset
    decals,          \* geometric registry: ModelWithDecals decals state
    meshes,          \* live decal meshes, by object identity
    group,           \* decalsGroupRef.current.children
    uvDecals,        \* uv registry: the decals state handed to useUVDecals
    atlas,           \* useUVPainter.materialMapRef: material -> canvas pixels
    activeDragId,    \* drag session: id of the dragged decal, or NoId
    nextId,          \* number of ids generated so far
    edits,           \* number of edit commands processed so far
    dragImpl,        \* geometric move: "hook" (useDecalDrag) | "inline" (ModelWithDecals)
    last,            \* the event handled by the last step
    events,          \* the events that step dispatched, in order
    pointerDown,     \* the pointer is pressed on the canvas
    captureHeld,     \* gl.domElement holds the pointer capture
    controlsEnabled, \* gl.controls.enabled (OrbitControls)
    listening,       \* the window pointermove / pointerup listeners of the drag are registered
    latestXY,        \* drag closure: the last pointer position, as the hit under it, or NoHit
    scheduled,       \* useUVDrag closure: a frame callback has been requested
    callbacks,       \* requestAnimationFrame callbacks queued for the next frame
    passes,          \* raycast-and-repaint passes run in the current animation frame
    rendererSize,    \* gl.getSize(): [w, h]
    pixelRatio,      \* gl.getPixelRatio()
    background,      \* scene.background: a colour, or Null
    bgColor,         \* the bgColor prop of the viewer
    gltfMeshes,      \* the meshes of the loaded GLTF scene in traverse order, or NoModel
    report,          \* useUVChecks: the report state, or NoReport
    glbUrl,          \* App: the object URL of the chosen GLB, or Null
    modelLoaded,     \* App: modelLoaded
    uvReport,        \* App: the report received with uvCheckResult, or NoReport
    uvModalOpen,     \* App: uvModalOpen
    clearAllDecals,  \* App: the clearAllDecals prop of DecalList
    panel,           \* DecalList: the ids of its decals state, newest first
    camera,          \* the camera: its up and forward unit vectors in world space
    orientation,     \* the normal and the basis the last placement or drag step used
    exportScene,     \* the scene handed to GLTFExporter.parse by the last exportGLB, or NoExport
    container,       \* containerRef.current: its uniform scale, its turns and its position
    handlerDecals,   \* useDecals: the decals array the subscribed decalCommand handler closed over
    disposals,       \* the ids of the decals whose mesh resources a delete disposed, in order
    removals         \* the ids every delete announced with decalRemoved, in order

session == <<pointerDown, captureHeld, controlsEnabled, listening, latestXY, scheduled,
             callbacks, passes>>
render == <<rendererSize, pixelRatio, background, bgColor>>
check == <<gltfMeshes, report>>
app == <<glbUrl, modelLoaded, uvReport, uvModalOpen, clearAllDecals>>
view == <<camera, orientation>>
aux == <<exportScene, container, handlerDecals, disposals, removals>>

vars == <<strategy, synced, texts, logos, assetSelection, decals, meshes, group, uvDecals,
          atlas, activeDragId, nextId, edits, dragImpl, last, events, session, render, check,
          app, panel, view, aux>>

(***************************************************************************)
(* Bounds of the model and the sets the inputs are drawn from.             *)
(***************************************************************************)
MaxEdits == 2

DecalIds == <<"d1", "d2">>
TextChoices == {"Mockup!"}
FontChoices == {"serif"}
ColorChoices == {"#ff0000"}
FontSizeChoices == {48}
WidthChoices == {25}
RotationChoices == {90}
SizePxChoices == {256}

Undef == "undefined"
NoId == "none"
NoNum == 0 - 1
NoAsset == [type |-> "none", index |-> 0]

(***************************************************************************)
(* Sequence helpers (Array.prototype.filter / map / find).                 *)
(***************************************************************************)
RECURSIVE FilterOut(_, _)
FilterOut(s, id) ==
    IF s = <<>> THEN <<>>
    ELSE IF Head(s).id = id THEN FilterOut(Tail(s), id)
         ELSE <<Head(s)>> \o FilterOut(Tail(s), id)

Ids(s) == {s[i].id : i \in DOMAIN s}

Find(s, id) == CHOOSE i \in DOMAIN s : s[i].id = id /\ \A j \in DOMAIN s : s[j].id = id => i <= j

Replace(s, rec) == [i \in DOMAIN s |-> IF s[i].id = rec.id THEN rec ELSE s[i]]

RecordOf(s, id) == s[Find(s, id)]

Min(a, b) == IF a < b THEN a ELSE b
Max(a, b) == IF a > b THEN a ELSE b

(***************************************************************************)
(* 4.1 Asset canvas generator: ModelWithDecals.makeCanvasForAsset.         *)
(* A canvas is described by what was drawn on the cleared 512x512 buffer.  *)
(***************************************************************************)
CanvasSize == 512

AdaptiveFontSize(t) == Max(32, Min(96, 280 \div Max(1, Len(t))))

\* opts is [text, font, color, fontSize]; Undef / NoNum stand for an absent option.
NoOpts == [text |-> Undef, font |-> Undef, color |-> Undef, fontSize |-> NoNum]

MakeCanvasForAsset(textsNow, logosNow, asset, opts) ==
    IF asset.type = "text" THEN
        LET t == IF opts.text # Undef THEN opts.text
                 ELSE IF asset.index \in DOMAIN textsNow THEN textsNow[asset.index]
                 ELSE "Text"
        IN [kind |-> "text", text |-> t,
            color |-> IF opts.color # Undef THEN opts.color ELSE "#000000",
            font |-> IF opts.font # Undef THEN opts.font ELSE "sans-serif",
            fontSize |-> IF opts.fontSize # NoNum THEN opts.fontSize ELSE AdaptiveFontSize(t)]
    ELSE IF asset.index \in DOMAIN logosNow /\ logosNow[asset.index].complete THEN
        \* the image scaled to 90% and centred; a given colour is then filled
        \* over the whole buffer (source-over)
        [kind |-> "logo", text |-> logosNow[asset.index].file,
         color |-> opts.color, font |-> Undef, fontSize |-> NoNum]
    ELSE
        [kind |-> "placeholder", text |-> Undef, color |-> "#cccccc", font |-> Undef, fontSize |-> NoNum]

(***************************************************************************)
(* 4.2 Raycast results.  A hit carries the mesh, the world point, the face  *)
(* normal in world space, the uv at the hit and the material of the face.  *)
(* m1 is the first mesh of the model node (meshes[0] of the traverse).     *)
(***************************************************************************)
FirstMesh == "m1"

HitSet ==
    { [obj |-> "m1", p |-> 1, n |-> "nA", u |-> 1, v |-> 1, mat |-> "matA"],
      [obj |-> "m2", p |-> 2, n |-> "nB", u |-> 2, v |-> 1, mat |-> "matA"],
      [obj |-> "m2", p |-> 3, n |-> "nC", u |-> 2, v |-> 3, mat |-> "matB"] }

NoPos == [p |-> 0, off |-> 0]

(***************************************************************************)
(* 4.5 Geometric strategy.  The engine state is g = [decals, meshes,       *)
(* group]: the registry, the live THREE.Mesh objects by identity, and the  *)
(* children of decalsGroup.  A record holds its mesh by reference.         *)
(* ModelWithDecals.createDecalMesh: the mesh is described by the inputs of *)
(* its DecalGeometry and by its texture.                                   *)
(***************************************************************************)
DefaultWidth == 50
MeshOffset == 1

CreateDecalMesh(hitObject, point, normal, canvas, width, rotationDeg) ==
    [geo |-> [obj |-> hitObject, p |-> point.p, off |-> point.off + MeshOffset,
              n |-> normal, w |-> width, pad |-> 10, rot |-> rotationDeg, basis |-> "up"],
     map |-> canvas,
     geoDisposed |-> FALSE,
     matDisposed |-> FALSE]

\* identity of a new object: the least one no live object has
NewMeshId(ms) == CHOOSE n \in 1..(Cardinality(DOMAIN ms) + 1) : n \notin DOMAIN ms

\* objects no record and no scene node refers to are dropped
Collect(g) ==
    LET liveIds == {g.decals[i].mesh : i \in DOMAIN g.decals} \cup g.group
    IN [g EXCEPT !.meshes = [m \in (DOMAIN g.meshes) \cap liveIds |-> g.meshes[m]]]

\* rec.mesh.geometry.dispose(); material.map.dispose(); material.dispose();
\* decalsGroupRef.current.remove(rec.mesh)
DisposeAndRemove(g, m) ==
    [g EXCEPT !.meshes[m].geoDisposed = TRUE, !.meshes[m].matDisposed = TRUE,
              !.group = g.group \ {m}]

\* decalsGroupRef.current.add(mesh) of a mesh just created
AddMesh(g, m, mesh) ==
    [g EXCEPT !.meshes = [x \in (DOMAIN g.meshes) \cup {m} |-> IF x = m THEN mesh ELSE g.meshes[x]],
              !.group = g.group \cup {m}]

SetRecord(g, rec) == [g EXCEPT !.decals = Replace(g.decals, rec)]

Same(g) == [g |-> g, events |-> <<>>]

(***************************************************************************)
(* 4.6 Placement, geometric: ModelWithDecals.onPointerDown.                *)
(* The result is the new engine state and the events dispatched.           *)
(***************************************************************************)
GeoPlaceRecord(textsNow, logosNow, asset, hit, id, m) ==
    LET hasText == asset.type = "text" /\ asset.index \in DOMAIN textsNow
    IN [id |-> id,
        mesh |-> m,
        sizeForDecal |-> DefaultWidth,
        canvas |-> MakeCanvasForAsset(textsNow, logosNow, asset, NoOpts),
        meta |-> asset,
        text |-> IF hasText THEN textsNow[asset.index] ELSE Undef,
        font |-> Undef,
        color |-> Undef,
        hitObject |-> hit.obj,
        position |-> [p |-> hit.p, off |-> 0],
        normal |-> hit.n,
        rotDeg |-> 0,
        fontSize |-> IF asset.type = "text"
                     THEN AdaptiveFontSize(IF hasText THEN textsNow[asset.index] ELSE "")
                     ELSE NoNum,
        localPosition |-> NoPos,
        localNormal |-> Undef]

\* a placement that does not ask the App to clear the selection
GeoPlaceKeepsArmed(g, textsNow, logosNow, asset, hit, id, throws) ==
    IF throws THEN Same(g)
    ELSE LET m == NewMeshId(g.meshes)
             canvas == MakeCanvasForAsset(textsNow, logosNow, asset, NoOpts)
             mesh == CreateDecalMesh(FirstMesh, [p |-> hit.p, off |-> 0], hit.n, canvas, DefaultWidth, 0)
             g1 == AddMesh(g, m, mesh)
             rec == GeoPlaceRecord(textsNow, logosNow, asset, hit, id, m)
         IN [g |-> [g1 EXCEPT !.decals = Append(g.decals, rec)],
             events |-> << [type |-> "decalPlaced", id |-> id, field |-> Undef] >>]

GeoPlace(g, textsNow, logosNow, asset, hit, id, throws) ==
    IF throws THEN Same(g)
    ELSE LET m == NewMeshId(g.meshes)
             canvas == MakeCanvasForAsset(textsNow, logosNow, asset, NoOpts)
             mesh == CreateDecalMesh(FirstMesh, [p |-> hit.p, off |-> 0], hit.n, canvas, DefaultWidth, 0)
             g1 == AddMesh(g, m, mesh)
             rec == GeoPlaceRecord(textsNow, logosNow, asset, hit, id, m)
         IN [g |-> [g1 EXCEPT !.decals = Append(g.decals, rec)],
             events |-> << [type |-> "decalPlaced", id |-> id, field |-> Undef],
                           [type |-> "clearAssetSelection", id |-> NoId, field |-> Undef] >>]

(***************************************************************************)
(* 4.6 Command processor, geometric: useDecals.handler.                    *)
(* data is [text, font, color, size, fontSize, rotationDeg], Undef / NoNum *)
(* for a field the command does not carry.  throws: createDecalMesh        *)
(* (geometry construction, texture creation) throws in this call.          *)
(***************************************************************************)
NoData == [text |-> Undef, font |-> Undef, color |-> Undef,
           size |-> NoNum, fontSize |-> NoNum, rotationDeg |-> NoNum]

EditActions == {"updateText", "updateFont", "updateColor", "setSize", "setFontSize", "setRotation"}

Updated(id, field) == [type |-> "decalUpdated", id |-> id, field |-> field]
Removed(id) == [type |-> "decalRemoved", id |-> id, field |-> Undef]

\* the world position and normal the handler rebuilds the decal at
SavedPos(rec) == IF rec.localPosition # NoPos THEN rec.localPosition ELSE rec.position
SavedNormal(rec) == IF rec.localNormal # Undef THEN rec.localNormal ELSE rec.normal

\* a delete that tears the mesh down and forgets the registry
GeoDeleteKeepsRecord(g, rec) ==
    [g |-> DisposeAndRemove(g, rec.mesh), events |-> <<Removed(rec.id)>>]

GeoDelete(g, rec) ==
    LET g1 == DisposeAndRemove(g, rec.mesh)
    IN [g |-> Collect([g1 EXCEPT !.decals = FilterOut(g.decals, rec.id)]),
        events |-> <<Removed(rec.id)>>]

\* (rec.mesh.material as any).map = new THREE.CanvasTexture(canvas)
SetMap(g, m, canvas) == [g EXCEPT !.meshes[m].map = canvas]

GeoUpdateText(g, textsNow, logosNow, rec, data) ==
    IF rec.meta.type # "text" THEN Same(g)
    ELSE LET canvas == MakeCanvasForAsset(textsNow, logosNow, rec.meta,
                          [text |-> data.text, font |-> rec.font, color |-> rec.color, fontSize |-> NoNum])
             r2 == [rec EXCEPT !.text = data.text, !.canvas = canvas]
         IN [g |-> SetRecord(SetMap(g, rec.mesh, canvas), r2), events |-> <<Updated(rec.id, "text")>>]

GeoUpdateFont(g, textsNow, logosNow, rec, data) ==
    IF rec.meta.type # "text" THEN Same(g)
    ELSE LET canvas == MakeCanvasForAsset(textsNow, logosNow, rec.meta,
                          [text |-> rec.text, font |-> data.font, color |-> rec.color, fontSize |-> rec.fontSize])
             r2 == [rec EXCEPT !.font = data.font, !.canvas = canvas]
         IN [g |-> SetRecord(SetMap(g, rec.mesh, canvas), r2), events |-> <<Updated(rec.id, "font")>>]

GeoUpdateColor(g, textsNow, logosNow, rec, data) ==
    LET canvas == MakeCanvasForAsset(textsNow, logosNow, rec.meta,
                      [text |-> rec.text, font |-> rec.font, color |-> data.color, fontSize |-> NoNum])
        r2 == [rec EXCEPT !.color = data.color, !.canvas = canvas]
    IN [g |-> SetRecord(SetMap(g, rec.mesh, canvas), r2), events |-> <<Updated(rec.id, "color")>>]

\* the part the three rebuilding commands share: dispose and remove the old
\* mesh, create the new one, add it, point the record at it
Rebuild(g, rec, canvas, width, rotationDeg, throws, r2, field) ==
    LET g1 == DisposeAndRemove(g, rec.mesh)
        m == NewMeshId(g1.meshes)
        newMesh == CreateDecalMesh(rec.hitObject, SavedPos(rec), SavedNormal(rec),
                                   canvas, width, rotationDeg)
    IN IF throws
       THEN [g |-> g1, events |-> <<>>]
       ELSE [g |-> Collect(SetRecord(AddMesh(g1, m, newMesh), [r2 EXCEPT !.mesh = m])),
             events |-> <<Updated(rec.id, field)>>]

GeoSetSize(g, rec, data, throws) ==
    LET newSize == IF data.size # NoNum THEN data.size ELSE rec.sizeForDecal
    IN Rebuild(g, rec, rec.canvas, newSize, rec.rotDeg, throws,
               [rec EXCEPT !.sizeForDecal = newSize], "size")

GeoSetFontSize(g, textsNow, logosNow, rec, data, throws) ==
    IF rec.meta.type # "text" THEN Same(g)
    ELSE LET fontPx == IF data.fontSize # NoNum THEN data.fontSize
                       ELSE IF rec.fontSize # NoNum THEN rec.fontSize ELSE 48
             newCanvas == MakeCanvasForAsset(textsNow, logosNow, rec.meta,
                             [text |-> IF rec.text # Undef THEN rec.text ELSE "",
                              font |-> rec.font, color |-> rec.color, fontSize |-> fontPx])
         IN Rebuild(g, rec, newCanvas, rec.sizeForDecal, rec.rotDeg, throws,
                    [rec EXCEPT !.canvas = newCanvas, !.fontSize = fontPx], "fontSize")

\* a setRotation that turns the decal by the angle instead of setting it
GeoSetRotationRelative(g, rec, data, throws) ==
    LET rotationDeg == (rec.rotDeg + (IF data.rotationDeg # NoNum THEN data.rotationDeg ELSE 0)) % 360
    IN Rebuild(g, rec, rec.canvas, rec.sizeForDecal, rotationDeg, throws,
               [rec EXCEPT !.rotDeg = rotationDeg], "rotationDeg")

GeoSetRotation(g, rec, data, throws) ==
    LET rotationDeg == IF data.rotationDeg # NoNum THEN data.rotationDeg ELSE 0
    IN Rebuild(g, rec, rec.canvas, rec.sizeForDecal, rotationDeg, throws,
               [rec EXCEPT !.rotDeg = rotationDeg], "rotationDeg")

GeoCommand(g, textsNow, logosNow, id, action, data, throws) ==
    IF id = NoId \/ action = Undef \/ id \notin Ids(g.decals)
    THEN Same(g)
    ELSE LET rec == g.decals[Find(g.decals, id)]
         IN CASE action = "delete" -> GeoDelete(g, rec)
              [] action = "updateText" -> GeoUpdateText(g, textsNow, logosNow, rec, data)
              [] action = "updateFont" -> GeoUpdateFont(g, textsNow, logosNow, rec, data)
              [] action = "updateColor" -> GeoUpdateColor(g, textsNow, logosNow, rec, data)
              [] action = "setSize" -> GeoSetSize(g, rec, data, throws)
              [] action = "setFontSize" -> GeoSetFontSize(g, textsNow, logosNow, rec, data, throws)
              [] action = "setRotation" -> GeoSetRotation(g, rec, data, throws)
              [] OTHER -> Same(g)

(***************************************************************************)
(* clearDecals, geometric: useDecalCommands.handler.                       *)
(***************************************************************************)
RECURSIVE DisposeAll(_, _)
DisposeAll(g, ds) ==
    IF ds = <<>> THEN g ELSE DisposeAll(DisposeAndRemove(g, Head(ds).mesh), Tail(ds))

GeoClear(g) ==
    [g |-> Collect([DisposeAll(g, g.decals) EXCEPT !.decals = <<>>]),
     events |-> <<Removed(NoId)>>]

(***************************************************************************)
(* move, geometric.  Two implementations exist; dragImpl says which one is *)
(* mounted.  Both are given a raycast that hit the model.                  *)
(***************************************************************************)
DragOffset == 5

\* useDecalDrag.processLatest: the geometry of the record's own mesh is replaced;
\* the box is width * 1.5 (pad 15, in tenths) and oriented by the camera basis.
\* setDecals / decalUpdated sit behind `moved`, which compares rec.position with
\* the point it was just assigned.
HookDragMove(g, id, hit, throws) ==
    IF id = NoId \/ id \notin Ids(g.decals) \/ throws THEN Same(g)
    ELSE LET rec == g.decals[Find(g.decals, id)]
             placementPoint == [p |-> hit.p, off |-> DragOffset]
             newGeo == [obj |-> hit.obj, p |-> placementPoint.p, off |-> placementPoint.off,
                        n |-> hit.n, w |-> rec.sizeForDecal, pad |-> 15,
                        rot |-> rec.rotDeg, basis |-> "camera"]
             g1 == [g EXCEPT !.meshes[rec.mesh].geo = newGeo,
                             !.meshes[rec.mesh].geoDisposed = FALSE]
             r2 == [rec EXCEPT !.hitObject = hit.obj, !.position = placementPoint,
                               !.normal = hit.n, !.localPosition = placementPoint,
                               !.localNormal = hit.n]
             prevPos == r2.position
             moved == prevPos = NoPos \/ prevPos # placementPoint
         IN [g |-> SetRecord(g1, r2),
             events |-> IF moved THEN <<Updated(id, Undef)>> ELSE <<>>]

\* ModelWithDecals.onPointerMove: a new mesh is created with the default
\* rotationDeg, added, and the old one disposed and removed.
InlineDragMove(g, id, hit, throws) ==
    IF id = NoId \/ id \notin Ids(g.decals) \/ throws THEN Same(g)
    ELSE LET rec == g.decals[Find(g.decals, id)]
             newPoint == [p |-> hit.p, off |-> 0]
             m == NewMeshId(g.meshes)
             newMesh == CreateDecalMesh(hit.obj, newPoint, hit.n, rec.canvas, rec.sizeForDecal, 0)
             g1 == DisposeAndRemove(AddMesh(g, m, newMesh), rec.mesh)
             r2 == [rec EXCEPT !.mesh = m, !.hitObject = hit.obj,
                               !.position = newPoint, !.normal = hit.n]
         IN [g |-> Collect(SetRecord(g1, r2)), events |-> <<Updated(id, Undef)>>]

(***************************************************************************)
(* 4.5 UV-atlas painting.  The engine state is u = [decals, atlas]: the    *)
(* registry and the map material uuid -> canvas.  A canvas is observed at  *)
(* sample pixels; the content of a pixel is the sequence of layers         *)
(* composited on it (source-over), the seed first; <<>> is a cleared       *)
(* (transparent) pixel.  A drawn asset canvas counts for every pixel of    *)
(* its destination rectangle.  Rotations are multiples of 90 degrees, so   *)
(* the square destination keeps its footprint.                             *)
(***************************************************************************)
DefaultAtlasSize == 2048
DefaultSizePx == 512
RedrawMargin == 100

\* the image of the material's original texture: its size, or 0 for no map
TextureSize(mat) == IF mat = "matA" THEN 1022 ELSE 0

Samples(mat) ==
    IF mat = "matA"
    THEN {<<100, 100>>, <<300, 100>>, <<600, 100>>, <<800, 100>>, <<300, 800>>}
    ELSE {<<1024, 1536>>, <<1300, 1536>>, <<1024, 512>>}

BlankCanvas(kind, name) ==
    [kind |-> kind, text |-> name, color |-> Undef, font |-> Undef, fontSize |-> NoNum]

SeedLayer(src) == [src |-> src, cx |-> 0, cy |-> 0, sx |-> 0, rot |-> 0, flip |-> FALSE]

\* a canvas that keeps the original texture as its seed whatever the copy did
NewMaterialCanvasUnguarded(mat, cors) ==
    LET size == IF TextureSize(mat) # 0 THEN TextureSize(mat) ELSE DefaultAtlasSize
        base == IF TextureSize(mat) # 0 THEN BlankCanvas("texture", mat)
                ELSE BlankCanvas("white", Undef)
    IN [w |-> size, h |-> size, base |-> base,
        px |-> [xy \in Samples(mat) |-> <<SeedLayer(base)>>]]

\* useUVPainter.ensureMaterialCanvas, for a material that has no canvas yet.
\* cors: copying the original image throws.
NewMaterialCanvas(mat, cors) ==
    LET size == IF TextureSize(mat) # 0 THEN TextureSize(mat) ELSE DefaultAtlasSize
        base == IF TextureSize(mat) # 0 /\ ~cors THEN BlankCanvas("texture", mat)
                ELSE BlankCanvas("white", Undef)
    IN [w |-> size, h |-> size, base |-> base,
        px |-> [xy \in Samples(mat) |-> <<SeedLayer(base)>>]]

\* an ensureMaterialCanvas without the has(key) test: a fresh canvas on every call
EnsureMaterialCanvasAnew(atl, mat, cors) ==
    [x \in (DOMAIN atl) \cup {mat} |-> IF x = mat THEN NewMaterialCanvas(mat, cors) ELSE atl[x]]

EnsureMaterialCanvas(atl, mat, cors) ==
    IF mat \in DOMAIN atl THEN atl
    ELSE [x \in (DOMAIN atl) \cup {mat} |-> IF x = mat THEN NewMaterialCanvas(mat, cors) ELSE atl[x]]

\* ctx.clearRect(x, y, w, h)
ClearRect(mc, x, y, w, h) ==
    [mc EXCEPT !.px = [xy \in DOMAIN mc.px |->
        IF x <= xy[1] /\ xy[1] < x + w /\ y <= xy[2] /\ xy[2] < y + h
        THEN <<>> ELSE mc.px[xy]]]

\* ctx.drawImage of a canvas into the sx-by-sx square centred at (cx, cy)
Layer(canvas, cx, cy, sx, rot, flip) ==
    [src |-> canvas, cx |-> cx, cy |-> cy, sx |-> sx, rot |-> rot, flip |-> flip]

Covers(l, xy) ==
    /\ 2 * l.cx - l.sx <= 2 * xy[1] /\ 2 * xy[1] < 2 * l.cx + l.sx
    /\ 2 * l.cy - l.sx <= 2 * xy[2] /\ 2 * xy[2] < 2 * l.cy + l.sx

DrawImage(mc, l) ==
    [mc EXCEPT !.px = [xy \in DOMAIN mc.px |->
        IF Covers(l, xy) THEN Append(mc.px[xy], l) ELSE mc.px[xy]]]

(***************************************************************************)
(* 4.6 Placement, uv: useUVPainter.onPlace.                                *)
(***************************************************************************)
PlacePx(mc, hit) == (hit.u * mc.w) \div 4
PlacePy(mc, hit) == (hit.v * mc.h) \div 4

PlaceLayer(textsNow, logosNow, asset, mc, hit, sizePx) ==
    Layer(MakeCanvasForAsset(textsNow, logosNow, asset, NoOpts),
          PlacePx(mc, hit), PlacePy(mc, hit), sizePx, 0, TRUE)

\* the detail of the decalPlaced event
PlacedDetail(asset, mc, hit, sizePx, id) ==
    [id |-> id, meta |-> asset, px |-> PlacePx(mc, hit), py |-> PlacePy(mc, hit),
     sizePx |-> sizePx, materialUUID |-> hit.mat]

UVPaint(atl, textsNow, logosNow, asset, hit, sizePx, cors) ==
    LET a1 == EnsureMaterialCanvas(atl, hit.mat, cors)
    IN [a1 EXCEPT ![hit.mat] = DrawImage(a1[hit.mat],
            PlaceLayer(textsNow, logosNow, asset, a1[hit.mat], hit, sizePx))]

\* The owner of the uv registry appends the placed decal to it.  That
\* component is not among the sources; the record follows section 3 of the
\* design (placement, content, size, rotation 0) and the DecalRec type of
\* useUVDecals.
UVRegister(ds, textsNow, logosNow, detail) ==
    Append(ds, [id |-> detail.id,
                materialUUID |-> detail.materialUUID,
                px |-> detail.px,
                py |-> detail.py,
                sizePx |-> detail.sizePx,
                rotationDeg |-> 0,
                canvas |-> MakeCanvasForAsset(textsNow, logosNow, detail.meta, NoOpts),
                meta |-> detail.meta,
                text |-> Undef,
                font |-> Undef,
                color |-> Undef])

(***************************************************************************)
(* useUVDecals.  Its materialMapRef is the painter's map when the sync on  *)
(* mount found window.__materialCanvases (sync), an empty map otherwise.   *)
(***************************************************************************)
RecordSizePx(d) == IF d.sizePx # NoNum THEN d.sizePx ELSE DefaultSizePx

\* useUVDecals.redrawDecal
RedrawDecal(atl, sync, textsNow, logosNow, decal) ==
    IF ~sync \/ decal.materialUUID \notin DOMAIN atl THEN atl
    ELSE LET mc == atl[decal.materialUUID]
             assetCanvas == MakeCanvasForAsset(textsNow, logosNow, decal.meta,
                               [text |-> decal.text, font |-> decal.font,
                                color |-> decal.color, fontSize |-> NoNum])
             sx == RecordSizePx(decal)
             rotationDeg == IF decal.rotationDeg # NoNum THEN decal.rotationDeg ELSE 0
             cleared == ClearRect(mc, decal.px - sx \div 2 - RedrawMargin,
                                      decal.py - sx \div 2 - RedrawMargin,
                                      sx + RedrawMargin * 2, sx + RedrawMargin * 2)
         IN [atl EXCEPT ![decal.materialUUID] =
                DrawImage(cleared, Layer(assetCanvas, decal.px, decal.py, sx, rotationDeg, TRUE))]

\* the record a decalPlaced detail stands for in redrawDecal
DetailAsDecal(detail) ==
    [id |-> detail.id, materialUUID |-> detail.materialUUID, px |-> detail.px, py |-> detail.py,
     sizePx |-> detail.sizePx, rotationDeg |-> NoNum, canvas |-> Undef, meta |-> detail.meta,
     text |-> Undef, font |-> Undef, color |-> Undef]

\* useUVPainter.onPlace, then useUVDecals.onPlaced, then the registration
UVPlace(u, sync, textsNow, logosNow, asset, hit, sizePx, id, cors, throws) ==
    IF throws THEN [g |-> u, events |-> <<>>]
    ELSE LET a1 == UVPaint(u.atlas, textsNow, logosNow, asset, hit, sizePx, cors)
             detail == PlacedDetail(asset, a1[hit.mat], hit, sizePx, id)
             a2 == RedrawDecal(a1, sync, textsNow, logosNow, DetailAsDecal(detail))
         IN [g |-> [decals |-> UVRegister(u.decals, textsNow, logosNow, detail), atlas |-> a2],
             events |-> << [type |-> "decalPlaced", id |-> id, field |-> Undef] >>]

\* useUVDecals.onUpdated: payload is [id, sizePx, rotationDeg], NoNum for a
\* field the detail does not carry
MergePayload(d, payload) ==
    [d EXCEPT !.sizePx = IF payload.sizePx # NoNum THEN payload.sizePx ELSE d.sizePx,
              !.rotationDeg = IF payload.rotationDeg # NoNum THEN payload.rotationDeg
                              ELSE d.rotationDeg]

UVOnUpdated(u, sync, textsNow, logosNow, payload) ==
    IF payload.id = NoId THEN [g |-> u, events |-> <<>>]
    ELSE LET ds == [i \in DOMAIN u.decals |->
                       IF u.decals[i].id = payload.id THEN MergePayload(u.decals[i], payload)
                       ELSE u.decals[i]]
         IN [g |-> [decals |-> ds,
                    atlas |-> IF payload.id \in Ids(u.decals)
                              THEN RedrawDecal(u.atlas, sync, textsNow, logosNow,
                                       MergePayload(u.decals[Find(u.decals, payload.id)], payload))
                              ELSE u.atlas],
             events |-> <<>>]

\* useUVDecals decalCommand handler: it reads the id of the command only
UVCommand(u, sync, id) ==
    IF id = NoId \/ id \notin Ids(u.decals) THEN [g |-> u, events |-> <<>>]
    ELSE LET decal == u.decals[Find(u.decals, id)]
             s == (RecordSizePx(decal) * 3) \div 2
             a1 == IF sync /\ decal.materialUUID \in DOMAIN u.atlas
                   THEN [u.atlas EXCEPT ![decal.materialUUID] =
                            ClearRect(u.atlas[decal.materialUUID],
                                      decal.px - s \div 2, decal.py - s \div 2, s, s)]
                   ELSE u.atlas
         IN [g |-> [decals |-> FilterOut(u.decals, id), atlas |-> a1],
             events |-> <<Removed(id)>>]

\* useUVDecalCommands.handler, clearDecals; its materialMapRef parameter is
\* the painter's map
UVClear(u) ==
    [g |-> [decals |-> <<>>,
            atlas |-> [mat \in DOMAIN u.atlas |->
                          ClearRect(u.atlas[mat], 0, 0, u.atlas[mat].w, u.atlas[mat].h)]],
     events |-> <<Removed(NoId)>>]

\* useUVDrag.processLatest: Math.round(uv.x * W), Math.round((1 - uv.y) * H)
DragPx(mc, hit) == (2 * hit.u * mc.w + 4) \div 8
DragPy(mc, hit) == (2 * (4 - hit.v) * mc.h + 4) \div 8

UVDragMove(u, id, hit) ==
    IF id = NoId \/ id \notin Ids(u.decals) \/ hit.mat \notin DOMAIN u.atlas
    THEN [g |-> u, events |-> <<>>]
    ELSE LET rec == u.decals[Find(u.decals, id)]
             mc == u.atlas[hit.mat]
             sizePx == RecordSizePx(rec)
         IN [g |-> [u EXCEPT !.atlas[hit.mat] =
                        DrawImage(mc, Layer(rec.canvas, DragPx(mc, hit), DragPy(mc, hit),
                                            sizePx, 0, FALSE))],
             events |-> <<>>]

(***************************************************************************)
(* The state machine.                                                      *)
(***************************************************************************)
NoHit == [obj |-> "none", p |-> 0, n |-> "none", u |-> 0, v |-> 0, mat |-> "none"]

\* again: the step repeats the command of the step before it
Step(op, id, action, data, throws, again) ==
    [op |-> op, id |-> id, action |-> action, data |-> data, throws |-> throws, again |-> again]

G == [decals |-> decals, meshes |-> meshes, group |-> group]
U == [decals |-> uvDecals, atlas |-> atlas]

Registry == IF strategy = "geometric" THEN decals ELSE uvDecals

Null == "null"
NoModel == <<[hasUvs |-> FALSE, uvArea |-> 0 - 1, worldArea |-> 0 - 1, outOfBounds |-> FALSE]>>
NoReport == [meshes |-> <<>>, ok |-> FALSE, summaryProblems |-> {"no report"}]

\* no pointer pressed, nothing captured, the orbit controls enabled
SessionIdle ==
    /\ pointerDown = FALSE
    /\ captureHeld = FALSE
    /\ controlsEnabled = TRUE
    /\ listening = FALSE
    /\ latestXY = NoHit
    /\ scheduled = FALSE
    /\ callbacks = 0
    /\ passes = 0

\* Viewer: the canvas with <color attach="background" args={[bgColor]} />
RenderMounted ==
    /\ rendererSize = [w |-> 800, h |-> 600]
    /\ pixelRatio = 1
    /\ bgColor = "#070a12"
    /\ background = "#070a12"

\* useUVChecks before a GLTF is loaded
NoModelLoaded ==
    /\ gltfMeshes = NoModel
    /\ report = NoReport

\* A session with one text asset added and no asset armed; no decal placed.
\* vectors are [x, y, z, d]: the vector (x, y, z) / d with d > 0
Vec(x, y, z, d) == [x |-> x, y |-> y, z |-> z, d |-> d]

NoOrientation == [op |-> "none", normal |-> Vec(0, 0, 0, 1), tangent |-> Vec(0, 0, 0, 1),
                  bitangent |-> Vec(0, 0, 0, 1)]

\* the default camera: up +y, looking down -z, and nothing oriented yet
ViewDefault ==
    /\ camera = [up |-> Vec(0, 1, 0, 1), dir |-> Vec(0, 0, 0 - 1, 1)]
    /\ orientation = NoOrientation

\* a rational number, in lowest terms with a positive denominator
Frac(n, d) == [n |-> n, d |-> d]

NoExport == [exported |-> FALSE, model |-> FALSE, decalMeshes |-> <<>>]

\* new THREE.Group(): scale 1, no rotation, at the origin
NewContainer == [scale |-> Frac(1, 1), turns |-> <<>>, position |-> Vec(0, 0, 0, 1)]

\* nothing exported, the container as created, the handler subscribed over
\* the empty registry and no delete handled yet
AuxIdle ==
    /\ exportScene = NoExport
    /\ container = NewContainer
    /\ handlerDecals = <<>>
    /\ disposals = <<>>
    /\ removals = <<>>

\* App before a GLB is chosen
AppEmpty ==
    /\ glbUrl = Null
    /\ modelLoaded = FALSE
    /\ uvReport = NoReport
    /\ uvModalOpen = FALSE
    /\ clearAllDecals = FALSE

\* App with the first GLB of the session mounted and the gate closed
AppMounted ==
    /\ glbUrl = "blob:1"
    /\ modelLoaded = TRUE
    /\ uvReport = NoReport
    /\ uvModalOpen = FALSE
    /\ clearAllDecals = FALSE

Init ==
    /\ strategy \in {"geometric", "uv"}
    /\ synced \in BOOLEAN
    /\ dragImpl \in {"hook", "inline"}
    /\ strategy = "geometric" => ~synced
    /\ strategy = "uv" => dragImpl = "hook"
    /\ texts = <<"Hi">>
    /\ logos = <<>>
    /\ assetSelection = NoAsset
    /\ decals = <<>>
    /\ meshes = <<>>
    /\ group = {}
    /\ uvDecals = <<>>
    /\ atlas = <<>>
    /\ activeDragId = NoId
    /\ nextId = 0
    /\ edits = 0
    /\ last = Step("init", NoId, Undef, NoData, FALSE, FALSE)
    /\ events = <<>>
    /\ SessionIdle
    /\ RenderMounted
    /\ NoModelLoaded
    /\ AppMounted
    /\ panel = <<>>
    /\ ViewDefault
    /\ AuxIdle

Config == UNCHANGED <<strategy, synced, dragImpl>>

\* DecalList: the decalPlaced and decalRemoved listeners, applied to the
\* events of a step in the order they were dispatched (decalUpdated keeps
\* the ids)
RECURSIVE PanelAfter(_, _)
PanelAfter(ids, evs) ==
    IF evs = <<>> THEN ids
    ELSE LET e == Head(evs)
             next == IF e.type = "decalPlaced" THEN <<e.id>> \o ids
                     ELSE IF e.type = "decalRemoved" THEN SelectSeq(ids, LAMBDA x : x # e.id)
                     ELSE ids
         IN PanelAfter(next, Tail(evs))

Listed == panel' = PanelAfter(panel, events')

\* the steps of the editor leave the mounted configuration, the renderer and
\* the uv report alone; pointer capture, the orbit controls and the frame
\* callbacks of a drag are followed by DragSpec
Fixed == Config /\ UNCHANGED <<session, render, check, app, view, aux>> /\ Listed

\* the engine state after a step; a write of the registry state re-runs the
\* effects that close over it.  The cleanup of ModelWithDecals' drag effect
\* and of useUVDrag removes the move/up listeners, which drops the session;
\* the cleanup of useDecalDrag removes the pointerdown listener only.
SetEngine(r, written) ==
    /\ IF strategy = "geometric"
       THEN /\ decals' = r.g.decals
            /\ meshes' = r.g.meshes
            /\ group' = r.g.group
            /\ UNCHANGED <<uvDecals, atlas>>
       ELSE /\ uvDecals' = r.g.decals
            /\ atlas' = r.g.atlas
            /\ UNCHANGED <<decals, meshes, group>>
    /\ events' = r.events
    /\ activeDragId' = IF written /\ ~(strategy = "geometric" /\ dragImpl = "hook")
                       THEN NoId ELSE activeDragId

\* App: the Select button of a text or a logo
SelectAsset(type, i) ==
    /\ i \in DOMAIN (IF type = "text" THEN texts ELSE logos)
    /\ assetSelection' = [type |-> type, index |-> i]
    /\ last' = Step("selectAsset", NoId, Undef, NoData, FALSE, FALSE)
    /\ events' = <<>>
    /\ UNCHANGED <<texts, logos, decals, meshes, group, uvDecals, atlas,
                   activeDragId, nextId, edits>>
    /\ Fixed

\* pointerdown on the model with an asset armed
Place(hit, cors, throws) ==
    /\ assetSelection # NoAsset
    /\ nextId < Len(DecalIds)
    /\ cors => strategy = "uv" /\ ~throws /\ hit.mat \notin DOMAIN atlas /\ TextureSize(hit.mat) # 0
    /\ LET id == DecalIds[nextId + 1]
           r == IF strategy = "geometric"
                THEN GeoPlace(G, texts, logos, assetSelection, hit, id, throws)
                ELSE UVPlace(U, synced, texts, logos, assetSelection, hit, DefaultSizePx, id, cors, throws)
       IN /\ SetEngine(r, ~throws)
          /\ assetSelection' = IF throws THEN assetSelection ELSE NoAsset
          /\ nextId' = IF throws THEN nextId ELSE nextId + 1
          /\ last' = Step("place", id, Undef, NoData, throws, FALSE)
    /\ UNCHANGED <<texts, logos, edits>>
    /\ Fixed

\* the commands DecalList.doCommand sends
CommandSet ==
    {[action |-> "delete", data |-> NoData]}
    \cup {[action |-> "updateText", data |-> [NoData EXCEPT !.text = t]] : t \in TextChoices}
    \cup {[action |-> "updateFont", data |-> [NoData EXCEPT !.font = f]] : f \in FontChoices}
    \cup {[action |-> "updateColor", data |-> [NoData EXCEPT !.color = c]] : c \in ColorChoices}
    \cup {[action |-> "setSize", data |-> [NoData EXCEPT !.size = w]] : w \in WidthChoices}
    \cup {[action |-> "setFontSize", data |-> [NoData EXCEPT !.fontSize = n]] : n \in FontSizeChoices}
    \cup {[action |-> "setRotation", data |-> [NoData EXCEPT !.rotationDeg = d]] : d \in RotationChoices}

Rebuilding == {"setSize", "setFontSize", "setRotation"}

\* the geometric cases that change the record in place, without setDecals
InPlace == IF strategy = "geometric" THEN {"updateText", "updateFont", "updateColor"} ELSE {}

Engine == IF strategy = "geometric" THEN G ELSE U

\* the decalCommand listener of the strategy, on the engine state e
ApplyCommand(e, id, c, throws) ==
    IF strategy = "geometric"
    THEN GeoCommand(e, texts, logos, id, c.action, c.data, throws)
    ELSE UVCommand(e, synced, id)

\* a decalCommand event
Command(id, c, throws) ==
    /\ c.action # "delete" => edits < MaxEdits
    /\ throws => strategy = "geometric" /\ c.action \in Rebuilding /\ id \in Ids(decals)
    /\ LET r == ApplyCommand(Engine, id, c, throws)
       IN /\ SetEngine(r, r.events # <<>> /\ c.action \notin InPlace)
          /\ last' = Step("command", id, c.action, c.data, throws,
                          last = Step("command", id, c.action, c.data, FALSE, last.again))
    /\ edits' = IF c.action = "delete" THEN edits ELSE edits + 1
    /\ UNCHANGED <<texts, logos, assetSelection, nextId>>
    /\ Fixed

\* the clearDecals event
Clear ==
    /\ SetEngine(IF strategy = "geometric" THEN GeoClear(G) ELSE UVClear(U), TRUE)
    /\ last' = Step("clear", NoId, Undef, NoData, FALSE, FALSE)
    /\ UNCHANGED <<texts, logos, assetSelection, nextId, edits>>
    /\ Fixed

\* pointerdown on a decal with no asset armed.  geometric: the ray picks a
\* mesh of decalsGroup that a record holds.  uv: the hit object carries the
\* decal id in userData.decalId.
DragStart(id) ==
    /\ assetSelection = NoAsset
    /\ activeDragId = NoId
    /\ id \in Ids(Registry)
    /\ strategy = "geometric" => RecordOf(decals, id).mesh \in group
    /\ activeDragId' = id
    /\ last' = Step("dragStart", id, Undef, NoData, FALSE, FALSE)
    /\ events' = <<>>
    /\ UNCHANGED <<texts, logos, assetSelection, decals, meshes, group, uvDecals, atlas,
                   nextId, edits>>
    /\ Fixed

\* pointermove during a drag, the ray hitting the model
DragMove(hit, throws) ==
    /\ activeDragId # NoId
    /\ edits < MaxEdits
    /\ throws => strategy = "geometric"
    /\ LET r == IF strategy = "uv" THEN UVDragMove(U, activeDragId, hit)
                ELSE IF dragImpl = "hook" THEN HookDragMove(G, activeDragId, hit, throws)
                ELSE InlineDragMove(G, activeDragId, hit, throws)
       IN SetEngine(r, r.events # <<>>)
    /\ last' = Step("dragMove", activeDragId, Undef, NoData, throws, FALSE)
    /\ edits' = edits + 1
    /\ UNCHANGED <<texts, logos, assetSelection, nextId>>
    /\ Fixed

\* pointerup
DragEnd ==
    /\ activeDragId # NoId
    /\ activeDragId' = NoId
    /\ last' = Step("dragEnd", activeDragId, Undef, NoData, FALSE, FALSE)
    /\ events' = <<>>
    /\ UNCHANGED <<texts, logos, assetSelection, decals, meshes, group, uvDecals, atlas,
                   nextId, edits>>
    /\ Fixed

UpdatePayloads(id) ==
    {[id |-> id, sizePx |-> sz, rotationDeg |-> NoNum] : sz \in SizePxChoices}
    \cup {[id |-> id, sizePx |-> NoNum, rotationDeg |-> d] : d \in RotationChoices}

\* a decalUpdated event reaching useUVDecals
UVUpdated(payload) ==
    /\ strategy = "uv"
    /\ edits < MaxEdits
    /\ payload.id \in Ids(uvDecals)
    /\ SetEngine(UVOnUpdated(U, synced, texts, logos, payload), TRUE)
    /\ last' = Step("uvUpdated", payload.id, Undef, NoData, FALSE, FALSE)
    /\ edits' = edits + 1
    /\ UNCHANGED <<texts, logos, assetSelection, nextId>>
    /\ Fixed

IdSet == {DecalIds[i] : i \in DOMAIN DecalIds}

Next ==
    \/ \E type \in {"text", "logo"}, i \in 1..1 : SelectAsset(type, i)
    \/ \E hit \in HitSet, cors \in BOOLEAN, throws \in BOOLEAN : Place(hit, cors, throws)
    \/ \E id \in IdSet, c \in CommandSet, throws \in BOOLEAN : Command(id, c, throws)
    \/ Clear
    \/ \E id \in IdSet : DragStart(id)
    \/ \E hit \in HitSet, throws \in BOOLEAN : DragMove(hit, throws)
    \/ DragEnd
    \/ \E id \in IdSet : \E payload \in UpdatePayloads(id) : UVUpdated(payload)

Spec == Init /\ [][Next]_vars

(***************************************************************************)
(* The asset lists of App: texts and logos, their Add, Select and Delete   *)
(* buttons, and the image objects ModelWithDecals builds for the logos.    *)
(* A logo is [file, complete]: the File and whether its Image has loaded.  *)
(***************************************************************************)
AssetTexts == {"Hi", "Yo"}
AssetFiles == {"a.png", "b.png"}
\* the placements of this part click the first mesh
AssetHits == {h \in HitSet : h.obj = FirstMesh}

RemoveAt(s, i) == [k \in 1..(Len(s) - 1) |-> IF k < i THEN s[k] ELSE s[k + 1]]

\* the effect on [logos]: every Image is created anew and loads later
FreshImages(ls) == [k \in DOMAIN ls |-> [file |-> ls[k].file, complete |-> FALSE]]

AssetInit ==
    /\ strategy \in {"geometric", "uv"}
    /\ synced \in BOOLEAN
    /\ dragImpl \in {"hook", "inline"}
    /\ strategy = "geometric" => ~synced
    /\ strategy = "uv" => dragImpl = "hook"
    /\ texts = <<>>
    /\ logos = <<>>
    /\ assetSelection = NoAsset
    /\ decals = <<>>
    /\ meshes = <<>>
    /\ group = {}
    /\ uvDecals = <<>>
    /\ atlas = <<>>
    /\ activeDragId = NoId
    /\ nextId = 0
    /\ edits = 0
    /\ last = Step("init", NoId, Undef, NoData, FALSE, FALSE)
    /\ events = <<>>
    /\ SessionIdle
    /\ RenderMounted
    /\ NoModelLoaded
    /\ AppMounted
    /\ panel = <<>>
    /\ ViewDefault
    /\ AuxIdle

AssetFrame ==
    /\ UNCHANGED <<decals, meshes, group, uvDecals, atlas, activeDragId, nextId, edits>>
    /\ Fixed

\* AddTextControl.onAdd: the new text is appended and armed
AddText(t) ==
    /\ t \notin {texts[k] : k \in DOMAIN texts}
    /\ texts' = Append(texts, t)
    /\ assetSelection' = [type |-> "text", index |-> Len(texts) + 1]
    /\ last' = Step("addText", NoId, Undef, NoData, FALSE, FALSE)
    /\ events' = <<>>
    /\ UNCHANGED logos
    /\ AssetFrame

\* the file input of the Logos tab: the file is appended, nothing is armed
AddLogo(f) ==
    /\ f \notin {logos[k].file : k \in DOMAIN logos}
    /\ logos' = FreshImages(Append(logos, [file |-> f, complete |-> FALSE]))
    /\ last' = Step("addLogo", NoId, Undef, NoData, FALSE, FALSE)
    /\ events' = <<>>
    /\ UNCHANGED <<texts, assetSelection>>
    /\ AssetFrame

\* the Image of logo i finishes loading
LogoLoaded(i) ==
    /\ i \in DOMAIN logos
    /\ ~logos[i].complete
    /\ logos' = [logos EXCEPT ![i].complete = TRUE]
    /\ last' = Step("logoLoaded", NoId, Undef, NoData, FALSE, FALSE)
    /\ events' = <<>>
    /\ UNCHANGED <<texts, assetSelection>>
    /\ AssetFrame

\* the Delete button of text i
RemoveText(i) ==
    /\ i \in DOMAIN texts
    /\ texts' = RemoveAt(texts, i)
    /\ assetSelection' = IF assetSelection = [type |-> "text", index |-> i]
                         THEN NoAsset ELSE assetSelection
    /\ last' = Step("removeText", NoId, Undef, NoData, FALSE, FALSE)
    /\ events' = <<>>
    /\ UNCHANGED logos
    /\ AssetFrame

\* the Delete button of logo i; no source file listens to removeLogoAsset
RemoveLogo(i) ==
    /\ i \in DOMAIN logos
    /\ logos' = FreshImages(RemoveAt(logos, i))
    /\ assetSelection' = IF assetSelection = [type |-> "logo", index |-> i]
                         THEN NoAsset ELSE assetSelection
    /\ last' = Step("removeLogo", NoId, Undef, NoData, FALSE, FALSE)
    /\ events' = << [type |-> "removeLogoAsset", id |-> NoId, field |-> Undef] >>
    /\ UNCHANGED texts
    /\ AssetFrame

AssetNext ==
    \/ \E t \in AssetTexts : AddText(t)
    \/ \E f \in AssetFiles : AddLogo(f)
    \/ \E i \in 1..Cardinality(AssetFiles) : LogoLoaded(i)
    \/ \E i \in 1..Cardinality(AssetTexts) : RemoveText(i)
    \/ \E i \in 1..Cardinality(AssetFiles) : RemoveLogo(i)
    \/ \E type \in {"text", "logo"}, i \in 1..Cardinality(AssetTexts) : SelectAsset(type, i)
    \/ \E hit \in AssetHits : Place(hit, FALSE, FALSE)

AssetSpec == AssetInit /\ [][AssetNext]_vars

(***************************************************************************)
(* The pointer session of a drag: useDecalDrag ("hook"), the drag effect   *)
(* of ModelWithDecals ("inline") and useUVDrag ("uv").  A step is one DOM  *)
(* event handler, one animation frame, or one registry write by another    *)
(* component with the effect cleanup and re-subscription it causes.        *)
(***************************************************************************)
MaxCallbacks == 2

Impl == IF strategy = "uv" THEN "uv" ELSE dragImpl

\* what the ray under the pointer meets: a decal, the bare model, nothing
Targets ==
    {[on |-> "decal", id |-> DecalIds[k]] : k \in DOMAIN DecalIds}
    \cup {[on |-> "model", id |-> NoId], [on |-> "empty", id |-> NoId]}

\* one text decal placed on the first mesh, no asset armed
DragInit ==
    /\ strategy \in {"geometric", "uv"}
    /\ synced \in BOOLEAN
    /\ dragImpl \in {"hook", "inline"}
    /\ strategy = "geometric" => ~synced
    /\ strategy = "uv" => dragImpl = "hook"
    /\ texts = <<"Hi">>
    /\ logos = <<>>
    /\ assetSelection = NoAsset
    /\ \E hit \in AssetHits :
         LET asset == [type |-> "text", index |-> 1]
             r == IF strategy = "geometric"
                  THEN GeoPlace([decals |-> <<>>, meshes |-> <<>>, group |-> {}],
                                <<"Hi">>, <<>>, asset, hit, DecalIds[1], FALSE)
                  ELSE UVPlace([decals |-> <<>>, atlas |-> <<>>], synced, <<"Hi">>, <<>>,
                               asset, hit, DefaultSizePx, DecalIds[1], FALSE, FALSE)
         IN /\ decals = IF strategy = "geometric" THEN r.g.decals ELSE <<>>
            /\ meshes = IF strategy = "geometric" THEN r.g.meshes ELSE <<>>
            /\ group = IF strategy = "geometric" THEN r.g.group ELSE {}
            /\ uvDecals = IF strategy = "uv" THEN r.g.decals ELSE <<>>
            /\ atlas = IF strategy = "uv" THEN r.g.atlas ELSE <<>>
            /\ events = r.events
    /\ activeDragId = NoId
    /\ nextId = 1
    /\ edits = 0
    /\ last = Step("place", DecalIds[1], Undef, NoData, FALSE, FALSE)
    /\ SessionIdle
    /\ RenderMounted
    /\ NoModelLoaded
    /\ AppMounted
    /\ panel = <<DecalIds[1]>>
    /\ ViewDefault
    /\ AuxIdle

EngineSame == UNCHANGED <<decals, meshes, group, uvDecals, atlas>>

DragFrame ==
    /\ UNCHANGED <<texts, logos, assetSelection, nextId, render, check, app, view, aux>>
    /\ Listed
    /\ Config

\* pointerdown on the canvas: onPointerDown of the mounted implementation.
\* hook: capture, release it when no decal mesh is picked, else start.
\* inline: start when a decal mesh is picked; the pointer is never captured.
\* uv: capture; return when the ray hits nothing; else start when a hit
\* carries a decal id, and register the window listeners in either case.
PointerDown(target) ==
    /\ ~pointerDown
    /\ target.on = "decal" => target.id \in Ids(Registry)
    /\ pointerDown' = TRUE
    /\ LET picked == target.on = "decal" /\ (Impl = "uv" \/ assetSelection = NoAsset)
                     /\ (strategy = "geometric" => RecordOf(decals, target.id).mesh \in group)
           handled == Impl = "uv" \/ assetSelection = NoAsset
       IN /\ captureHeld' = IF Impl = "uv" THEN TRUE
                            ELSE IF Impl = "hook" /\ handled THEN picked
                            ELSE captureHeld
          /\ activeDragId' = IF picked THEN target.id ELSE activeDragId
          /\ controlsEnabled' = IF picked /\ Impl # "uv" THEN FALSE ELSE controlsEnabled
          /\ listening' = IF Impl = "uv" THEN (listening \/ target.on # "empty")
                          ELSE (listening \/ picked)
          /\ latestXY' = IF picked /\ Impl = "hook" THEN NoHit ELSE latestXY
    /\ last' = Step("pointerDown", target.id, Undef, NoData, FALSE, FALSE)
    /\ events' = <<>>
    /\ EngineSame
    /\ UNCHANGED <<edits, scheduled, callbacks, passes>>
    /\ DragFrame

\* pointermove on the window while a drag is active.  hook and inline
\* raycast and repaint in the handler; uv stores the position and requests
\* one frame callback unless one is scheduled.
PointerMove(hit) ==
    /\ listening
    /\ activeDragId # NoId
    /\ IF Impl = "uv"
       THEN /\ ~scheduled => callbacks < MaxCallbacks
            /\ latestXY' = hit
            /\ scheduled' = TRUE
            /\ callbacks' = IF scheduled THEN callbacks ELSE callbacks + 1
            /\ events' = <<>>
            /\ EngineSame
            /\ UNCHANGED <<activeDragId, listening, edits, passes>>
       ELSE /\ edits < MaxEdits
            /\ LET r == IF Impl = "hook" THEN HookDragMove(G, activeDragId, hit, FALSE)
                        ELSE InlineDragMove(G, activeDragId, hit, FALSE)
               IN /\ SetEngine(r, r.events # <<>>)
                  /\ listening' = (Impl = "hook" \/ r.events = <<>>)
            /\ latestXY' = IF Impl = "hook" THEN hit ELSE latestXY
            /\ passes' = passes + 1
            /\ edits' = edits + 1
            /\ UNCHANGED <<scheduled, callbacks>>
    /\ last' = Step("pointerMove", activeDragId, Undef, NoData, FALSE, FALSE)
    /\ UNCHANGED <<pointerDown, captureHeld, controlsEnabled>>
    /\ DragFrame

\* k runs of useUVDrag.processLatest on the same closure state
RECURSIVE ProcessLatest(_, _, _, _)
ProcessLatest(u, id, hit, k) ==
    IF k = 0 THEN u ELSE ProcessLatest(UVDragMove(u, id, hit).g, id, hit, k - 1)

\* an animation frame: the browser runs the queued callbacks, then paints
AnimationFrame ==
    /\ callbacks > 0 \/ passes > 0
    /\ LET runs == IF activeDragId # NoId /\ latestXY # NoHit /\ activeDragId \in Ids(uvDecals)
                      /\ latestXY.mat \in DOMAIN atlas
                   THEN callbacks ELSE 0
       IN /\ edits + runs <= MaxEdits
          /\ atlas' = ProcessLatest(U, activeDragId, latestXY, runs).atlas
          /\ passes' = runs
          /\ edits' = edits + runs
    /\ callbacks' = 0
    /\ scheduled' = FALSE
    /\ last' = Step("frame", activeDragId, Undef, NoData, FALSE, FALSE)
    /\ events' = <<>>
    /\ UNCHANGED <<decals, meshes, group, uvDecals, activeDragId, pointerDown, captureHeld,
                   controlsEnabled, listening, latestXY>>
    /\ DragFrame

\* pointerup: onPointerUp when the window listeners are registered; the
\* browser releases a pointer capture after pointerup in any case
PointerUp ==
    /\ pointerDown
    /\ pointerDown' = FALSE
    /\ captureHeld' = FALSE
    /\ IF listening
       THEN /\ activeDragId' = NoId
            /\ listening' = FALSE
            /\ latestXY' = IF Impl = "inline" THEN latestXY ELSE NoHit
            /\ scheduled' = FALSE
            /\ controlsEnabled' = IF Impl = "uv" THEN controlsEnabled ELSE TRUE
       ELSE UNCHANGED <<activeDragId, listening, latestXY, scheduled, controlsEnabled>>
    /\ last' = Step("pointerUp", activeDragId, Undef, NoData, FALSE, FALSE)
    /\ events' = <<>>
    /\ EngineSame
    /\ UNCHANGED <<edits, callbacks, passes>>
    /\ DragFrame

\* the registry is written by another component (a setSize command of the
\* list, a decalUpdated payload for uv) and the drag effect re-subscribes:
\* the cleanup of inline and uv removes the window listeners, the one of
\* hook removes the pointerdown listener only
RegistryWrite(id) ==
    /\ edits < MaxEdits
    /\ id \in Ids(Registry)
    /\ callbacks = 0
    /\ LET r == IF strategy = "geometric"
                THEN GeoCommand(G, texts, logos, id, "setSize",
                                [NoData EXCEPT !.size = DefaultWidth], FALSE)
                ELSE UVOnUpdated(U, synced, texts, logos,
                                 [id |-> id, sizePx |-> DefaultSizePx, rotationDeg |-> NoNum])
       IN SetEngine(r, TRUE)
    /\ listening' = (Impl = "hook" /\ listening)
    /\ latestXY' = IF Impl = "hook" THEN latestXY ELSE NoHit
    /\ scheduled' = FALSE
    /\ edits' = edits + 1
    /\ last' = Step("registryWrite", id, Undef, NoData, FALSE, FALSE)
    /\ UNCHANGED <<pointerDown, captureHeld, controlsEnabled, callbacks, passes>>
    /\ DragFrame

DragNext ==
    \/ \E target \in Targets : PointerDown(target)
    \/ \E hit \in HitSet : PointerMove(hit)
    \/ AnimationFrame
    \/ PointerUp
    \/ \E id \in IdSet : RegistryWrite(id)

DragSpec == DragInit /\ [][DragNext]_vars

(***************************************************************************)
(* exportPNG: useDecalCommands.handler and useUVDecalCommands.handler.     *)
(* The renderer is [size, ratio, background]; the handler saves it, sets   *)
(* the export size, pixel ratio and a null background, renders, and        *)
(* restores in its finally block.                                          *)
(***************************************************************************)
ExportSizes == {[w |-> 800, h |-> 600], [w |-> 1024, h |-> 768], [w |-> 640, h |-> 480]}
PixelRatios == {1, 2, 3}
BgColors == {"#f5f5f5", "#070a12"}
DevicePixelRatios == {1, 3}
InnerHeight == 900

Renderer == [size |-> rendererSize, ratio |-> pixelRatio, background |-> background]

\* the try block up to gl.render: dpr = min(devicePixelRatio, 2),
\* h = floor(innerHeight * dpr), w = floor(h * aspect)
ExportSetup(r, devicePixelRatio) ==
    LET dpr == Min(devicePixelRatio, 2)
        h == InnerHeight * dpr
    IN [size |-> [w |-> (h * r.size.w) \div r.size.h, h |-> h],
        ratio |-> dpr,
        background |-> Null]

\* the finally block, given the values saved before the try
ExportRestore(r, prevSize, prevPixelRatio, prevBackground, bg) ==
    [r EXCEPT !.size = prevSize,
              !.ratio = prevPixelRatio,
              !.background = IF prevBackground # Null THEN prevBackground ELSE bg]

\* throws: gl.render or toDataURL throws; the finally block runs either way
ExportPNGResult(r, bg, devicePixelRatio, throws) ==
    [r |-> ExportRestore(ExportSetup(r, devicePixelRatio), r.size, r.ratio, r.background, bg),
     events |-> IF throws THEN <<>>
                ELSE << [type |-> "download", id |-> NoId, field |-> "mockup.png"] >>]

ExportInit ==
    /\ strategy \in {"geometric", "uv"}
    /\ synced = FALSE
    /\ dragImpl = "hook"
    /\ texts = <<"Hi">>
    /\ logos = <<>>
    /\ assetSelection = NoAsset
    /\ decals = <<>>
    /\ meshes = <<>>
    /\ group = {}
    /\ uvDecals = <<>>
    /\ atlas = <<>>
    /\ activeDragId = NoId
    /\ nextId = 0
    /\ edits = 0
    /\ last = Step("init", NoId, Undef, NoData, FALSE, FALSE)
    /\ events = <<>>
    /\ SessionIdle
    /\ NoModelLoaded
    /\ AppMounted
    /\ panel = <<>>
    /\ ViewDefault
    /\ AuxIdle
    /\ rendererSize \in ExportSizes
    /\ pixelRatio \in PixelRatios
    /\ bgColor \in BgColors
    /\ background \in {Null, bgColor}

ExportFrame ==
    /\ UNCHANGED <<texts, logos, assetSelection, decals, meshes, group, uvDecals, atlas,
                   activeDragId, nextId, edits, session, check, app, panel, view, aux>>
    /\ Config

\* the exportPNG event
ExportPNG(devicePixelRatio, throws) ==
    /\ LET res == ExportPNGResult(Renderer, bgColor, devicePixelRatio, throws)
       IN /\ rendererSize' = res.r.size
          /\ pixelRatio' = res.r.ratio
          /\ background' = res.r.background
          /\ events' = res.events
    /\ last' = Step("exportPNG", NoId, Undef, NoData, throws, FALSE)
    /\ UNCHANGED bgColor
    /\ ExportFrame

\* the window is resized: the canvas follows
Resize(size) ==
    /\ size # rendererSize
    /\ rendererSize' = size
    /\ last' = Step("resize", NoId, Undef, NoData, FALSE, FALSE)
    /\ events' = <<>>
    /\ UNCHANGED <<pixelRatio, background, bgColor>>
    /\ ExportFrame

\* App toggles canvasBgWhite: Viewer attaches the new colour as background
ToggleBackground(c) ==
    /\ c # bgColor
    /\ bgColor' = c
    /\ background' = c
    /\ last' = Step("toggleBackground", NoId, Undef, NoData, FALSE, FALSE)
    /\ events' = <<>>
    /\ UNCHANGED <<rendererSize, pixelRatio>>
    /\ ExportFrame

ExportNext ==
    \/ \E d \in DevicePixelRatios, throws \in BOOLEAN : ExportPNG(d, throws)
    \/ \E size \in ExportSizes : Resize(size)
    \/ \E c \in BgColors : ToggleBackground(c)

ExportSpec == ExportInit /\ [][ExportNext]_vars

(***************************************************************************)
(* decalCommand events of any shape: the detail may lack the id or the     *)
(* action, or name an id that is not in the registry.                      *)
(***************************************************************************)
AnyId == IdSet \cup {NoId}
AnyCommand == CommandSet \cup {[action |-> Undef, data |-> NoData]}

CommandNext ==
    \/ \E type \in {"text", "logo"}, i \in 1..1 : SelectAsset(type, i)
    \/ \E hit \in AssetHits : Place(hit, FALSE, FALSE)
    \/ \E id \in AnyId, c \in AnyCommand : Command(id, c, FALSE)
    \/ \E id \in IdSet : DragStart(id)

CommandSpec == Init /\ [][CommandNext]_vars

(***************************************************************************)
(* useUVChecks.  A mesh of the loaded scene is [hasUvs, uvArea, worldArea, *)
(* outOfBounds]: whether the geometry has a uv attribute, the sums of its  *)
(* triangle areas in uv space and in world space (both in units of 1e-10), *)
(* and whether a uv leaves [0, 1].                                         *)
(***************************************************************************)
MaxMeshes == 2

MeshChoices ==
    [hasUvs : {TRUE}, uvArea : {0, 1, 2, 1000}, worldArea : {1, 2, 300000}, outOfBounds : BOOLEAN]
    \cup [hasUvs : {FALSE}, uvArea : {0}, worldArea : {1, 2, 300000}, outOfBounds : {FALSE}]

ModelChoices == UNION {[1..n -> MeshChoices] : n \in 0..MaxMeshes}

\* a band that leaves texel density 1 outside: flagged unless world area is below uv area
DensityBandBelowOne(m) == m.worldArea >= m.uvArea

\* the uv area at or below which a mesh counts as degenerate: 1e-10
UvEpsilon == 1

\* texelDensity = sqrt(worldArea / uvArea) < 0.05 or > 500
DensityOutOfRange(m) == 400 * m.worldArea < m.uvArea \/ m.worldArea > 250000 * m.uvArea

\* the report of a mesh that has uvs: the triangle loop and the heuristics
AnalysedMeshReport(m) ==
    LET density == IF m.uvArea > UvEpsilon
                   THEN (IF DensityOutOfRange(m) THEN <<"UNIFORMITY_ISSUE">> ELSE <<>>)
                   ELSE <<"UV_DEGENERATE">>
    IN [hasUvs |-> m.hasUvs, uvOutOfBounds |-> m.outOfBounds,
        uvArea |-> m.uvArea, worldArea |-> m.worldArea,
        problems |-> IF m.outOfBounds THEN Append(density, "UV_OUT_OF_BOUNDS") ELSE density]

\* a traverse callback without the early return for a missing uv attribute:
\* the mesh is flagged and then analysed like any other
MeshReportFallThrough(m) ==
    IF ~m.hasUvs
    THEN [AnalysedMeshReport(m) EXCEPT !.problems = <<"NO_UVS">> \o AnalysedMeshReport(m).problems]
    ELSE AnalysedMeshReport(m)

\* the traverse callback for one mesh
MeshReport(m) ==
    IF ~m.hasUvs
    THEN [hasUvs |-> FALSE, uvOutOfBounds |-> FALSE, uvArea |-> 0, worldArea |-> 0,
          problems |-> <<"NO_UVS">>]
    ELSE AnalysedMeshReport(m)

SummaryOf(reports) ==
    UNION {{reports[k].problems[j] : j \in DOMAIN reports[k].problems} : k \in DOMAIN reports}

\* an aggregate whose ok looks at the problems only
AggregateProblemsOnly(reports) ==
    [meshes |-> reports, ok |-> Cardinality(SummaryOf(reports)) = 0,
     summaryProblems |-> SummaryOf(reports)]

\* the aggregate: summaryProblems, ok, the report
Aggregate(reports) ==
    [meshes |-> reports,
     ok |-> Len(reports) > 0 /\ Cardinality(SummaryOf(reports)) = 0,
     summaryProblems |-> SummaryOf(reports)]

UVReportOf(ms) == Aggregate([k \in DOMAIN ms |-> MeshReport(ms[k])])

UVCheckInit ==
    /\ strategy \in {"geometric", "uv"}
    /\ synced = FALSE
    /\ dragImpl = "hook"
    /\ texts = <<"Hi">>
    /\ logos = <<>>
    /\ assetSelection = NoAsset
    /\ decals = <<>>
    /\ meshes = <<>>
    /\ group = {}
    /\ uvDecals = <<>>
    /\ atlas = <<>>
    /\ activeDragId = NoId
    /\ nextId = 0
    /\ edits = 0
    /\ last = Step("init", NoId, Undef, NoData, FALSE, FALSE)
    /\ events = <<>>
    /\ SessionIdle
    /\ RenderMounted
    /\ NoModelLoaded
    /\ AppEmpty
    /\ panel = <<>>
    /\ ViewDefault
    /\ AuxIdle

UVCheckFrame ==
    /\ UNCHANGED <<texts, logos, assetSelection, decals, meshes, group, uvDecals, atlas,
                   activeDragId, nextId, edits, session, render, app, panel, view, aux>>
    /\ Config

\* a GLTF is chosen while no model is loaded (App shows the file input then):
\* the effect on [gltf] computes and stores the report
LoadModel(ms) ==
    /\ gltfMeshes = NoModel
    /\ gltfMeshes' = ms
    /\ report' = UVReportOf(ms)
    /\ last' = Step("loadModel", NoId, Undef, NoData, FALSE, FALSE)
    /\ events' = << [type |-> "uvCheckResult", id |-> NoId, field |-> Undef] >>
    /\ UVCheckFrame

\* the GLTF is removed: the report is reset
UnloadModel ==
    /\ gltfMeshes # NoModel
    /\ gltfMeshes' = NoModel
    /\ report' = NoReport
    /\ last' = Step("unloadModel", NoId, Undef, NoData, FALSE, FALSE)
    /\ events' = <<>>
    /\ UVCheckFrame

UVCheckNext ==
    \/ \E ms \in ModelChoices : LoadModel(ms)
    \/ UnloadModel

UVCheckSpec == UVCheckInit /\ [][UVCheckNext]_vars

(***************************************************************************)
(* useUVChecks, the triangle loop.  A triangle is [uvArea, worldArea,      *)
(* outOfBounds]: its area in uv space, its area in world space (the same   *)
(* unit of area as above) and whether one of its uvs leaves [0, 1].        *)
(***************************************************************************)
MaxTriangles == 2

TriangleChoices == [uvArea : {0, 1, 4}, worldArea : {1, 4, 300000}, outOfBounds : BOOLEAN]

TriangleLists == UNION {[1..n -> TriangleChoices] : n \in 1..MaxTriangles}

\* the loop over the triangles of a mesh that has uvs: the two sums and
\* the out-of-bounds flag
RECURSIVE MeshOfTriangles(_)
MeshOfTriangles(tris) ==
    IF tris = <<>>
    THEN [hasUvs |-> TRUE, uvArea |-> 0, worldArea |-> 0, outOfBounds |-> FALSE]
    ELSE LET rest == MeshOfTriangles(SubSeq(tris, 1, Len(tris) - 1))
             t == tris[Len(tris)]
         IN [hasUvs |-> TRUE,
             uvArea |-> rest.uvArea + t.uvArea,
             worldArea |-> rest.worldArea + t.worldArea,
             outOfBounds |-> rest.outOfBounds \/ t.outOfBounds]

\* a GLTF of one mesh with the triangles tris is chosen
LoadTriangleMesh(tris) ==
    /\ gltfMeshes = NoModel
    /\ gltfMeshes' = <<MeshOfTriangles(tris)>>
    /\ report' = UVReportOf(<<MeshOfTriangles(tris)>>)
    /\ last' = Step("loadTriangleMesh", NoId, Undef, NoData, FALSE, FALSE)
    /\ events' = << [type |-> "uvCheckResult", id |-> NoId, field |-> Undef] >>
    /\ UVCheckFrame

TriangleNext ==
    \/ \E tris \in TriangleLists : LoadTriangleMesh(tris)
    \/ UnloadModel

TriangleSpec == UVCheckInit /\ [][TriangleNext]_vars

(***************************************************************************)
(* App: the model session.  A GLB is chosen, its UV report arrives with    *)
(* uvCheckResult, the decision gate is answered, the model is deleted.     *)
(***************************************************************************)
Clean == [hasUvs |-> TRUE, uvArea |-> 2, worldArea |-> 2, outOfBounds |-> FALSE]
Tiled == [hasUvs |-> TRUE, uvArea |-> 2, worldArea |-> 2, outOfBounds |-> TRUE]
Bare == [hasUvs |-> FALSE, uvArea |-> 0, worldArea |-> 1, outOfBounds |-> FALSE]

GltfChoices == {<<>>, <<Clean>>, <<Bare>>, <<Clean, Tiled>>}

AppInit ==
    /\ strategy \in {"geometric", "uv"}
    /\ synced \in BOOLEAN
    /\ dragImpl = "hook"
    /\ strategy = "geometric" => ~synced
    /\ texts = <<>>
    /\ logos = <<>>
    /\ assetSelection = NoAsset
    /\ decals = <<>>
    /\ meshes = <<>>
    /\ group = {}
    /\ uvDecals = <<>>
    /\ atlas = <<>>
    /\ activeDragId = NoId
    /\ nextId = 0
    /\ edits = 0
    /\ last = Step("init", NoId, Undef, NoData, FALSE, FALSE)
    /\ events = <<>>
    /\ SessionIdle
    /\ RenderMounted
    /\ NoModelLoaded
    /\ AppEmpty
    /\ panel = <<>>
    /\ ViewDefault
    /\ AuxIdle

\* the modal is rendered
GateOpen == uvModalOpen /\ uvReport # NoReport

\* the modal opened on every report
ModalAlways(r) == TRUE

\* onUvResult: the modal flag for the report r of the event
ModalAfter(r) == ~(r # NoReport /\ r.ok)

\* the GLB file input, shown while no model is loaded
ChooseGLB ==
    /\ ~modelLoaded
    /\ glbUrl' = "blob:1"
    /\ modelLoaded' = TRUE
    /\ last' = Step("chooseGLB", NoId, Undef, NoData, FALSE, FALSE)
    /\ events' = <<>>
    /\ UNCHANGED <<texts, logos, assetSelection, decals, meshes, group, uvDecals, atlas,
                   activeDragId, nextId, edits, session, render, check, view, aux,
                   uvReport, uvModalOpen, clearAllDecals, panel>>
    /\ Config

\* the GLTF of the chosen URL is loaded: useUVChecks reports on it and
\* dispatches uvCheckResult, which onUvResult handles
UVCheckResult(ms) ==
    /\ glbUrl # Null
    /\ gltfMeshes = NoModel
    /\ gltfMeshes' = ms
    /\ report' = UVReportOf(ms)
    /\ events' = << [type |-> "uvCheckResult", id |-> NoId, field |-> Undef] >>
    /\ uvReport' = UVReportOf(ms)
    /\ uvModalOpen' = ModalAfter(UVReportOf(ms))
    /\ last' = Step("uvCheckResult", NoId, Undef, NoData, FALSE, FALSE)
    /\ UNCHANGED <<texts, logos, assetSelection, decals, meshes, group, uvDecals, atlas,
                   activeDragId, nextId, edits, session, render, view, aux,
                   glbUrl, modelLoaded, clearAllDecals, panel>>
    /\ Config

\* deleteModelAndResetAll with the effects of its state updates: clearDecals
\* reaches the handler of the mounted engine, ModelWithDecals unmounts with
\* glbUrl null, the effect on [modelLoaded] clears the UV state, and the
\* effect of DecalList on [clearAllDecals] runs when that prop changes
DeleteModelAndResetAll ==
    /\ glbUrl' = Null
    /\ logos' = <<>>
    /\ texts' = <<>>
    /\ assetSelection' = NoAsset
    /\ modelLoaded' = FALSE
    /\ clearAllDecals' = TRUE
    /\ events' = IF gltfMeshes = NoModel THEN <<>>
                 ELSE IF strategy = "geometric" THEN GeoClear(G).events ELSE UVClear(U).events
    /\ decals' = <<>>
    /\ meshes' = <<>>
    /\ group' = {}
    /\ uvDecals' = <<>>
    /\ atlas' = <<>>
    /\ activeDragId' = NoId
    /\ gltfMeshes' = NoModel
    /\ report' = NoReport
    /\ uvReport' = IF modelLoaded THEN NoReport ELSE uvReport
    /\ uvModalOpen' = FALSE
    /\ panel' = IF clearAllDecals THEN PanelAfter(panel, events') ELSE <<>>
    /\ UNCHANGED <<nextId, edits, session, render, view, aux>>
    /\ Config

\* handleUvChoice: Proceed anyway (TRUE) or Cancel (FALSE)
UvChoice(choiceUseUV) ==
    /\ GateOpen
    /\ last' = Step("uvChoice", NoId, IF choiceUseUV THEN "proceed" ELSE "cancel", NoData,
                     FALSE, FALSE)
    /\ IF choiceUseUV
       THEN /\ uvModalOpen' = FALSE
            /\ events' = <<>>
            /\ UNCHANGED <<texts, logos, assetSelection, decals, meshes, group, uvDecals,
                           atlas, activeDragId, nextId, edits, session, render, check, view, aux,
                           glbUrl, modelLoaded, uvReport, clearAllDecals, panel>>
            /\ Config
       ELSE DeleteModelAndResetAll

\* the Delete Model button, confirmed
DeleteModel ==
    /\ modelLoaded
    /\ last' = Step("deleteModel", NoId, Undef, NoData, FALSE, FALSE)
    /\ DeleteModelAndResetAll

\* the Texts tab is enabled while a model is loaded
AddTextOnTab(t) == modelLoaded /\ AddText(t)

\* ModelWithDecals.onPointerDown returns while no GLTF scene is mounted
PlaceOnModel(hit) == gltfMeshes # NoModel /\ Place(hit, FALSE, FALSE)

AppNext ==
    \/ ChooseGLB
    \/ \E ms \in GltfChoices : UVCheckResult(ms)
    \/ \E choiceUseUV \in BOOLEAN : UvChoice(choiceUseUV)
    \/ DeleteModel
    \/ \E t \in AssetTexts : AddTextOnTab(t)
    \/ \E i \in 1..2 : SelectAsset("text", i)
    \/ \E hit \in AssetHits : PlaceOnModel(hit)

AppSpec == AppInit /\ [][AppNext]_vars

(***************************************************************************)
(* Orientation of a decal: the normal a placement or a drag step stores    *)
(* and the basis useDecalDrag builds from it.  Vectors are exact rationals *)
(* whose cross products have rational lengths: the camera is axis-aligned  *)
(* and the normals lie in coordinate planes.                               *)
(***************************************************************************)
Abs(n) == IF n < 0 THEN 0 - n ELSE n

RECURSIVE Gcd(_, _)
Gcd(a, b) == IF b = 0 THEN a ELSE Gcd(b, a % b)

\* numerators of a . b and of |a|^2 (the denominators are a.d * b.d and a.d^2)
Dot(a, b) == a.x * b.x + a.y * b.y + a.z * b.z
LengthSqNum(v) == Dot(v, v)

\* Vector3.crossVectors
Cross(a, b) ==
    Vec(a.y * b.z - a.z * b.y, a.z * b.x - a.x * b.z, a.x * b.y - a.y * b.x, a.d * b.d)

\* Vector3.lengthSq() < num / den
LengthSqBelow(v, num, den) == den * LengthSqNum(v) < num * v.d * v.d

\* Math.sqrt of a perfect square n between lo and hi, by bisection
RECURSIVE Root(_, _, _)
Root(n, lo, hi) ==
    IF lo >= hi THEN lo
    ELSE LET mid == (lo + hi + 1) \div 2
         IN IF mid * mid <= n THEN Root(n, mid, hi) ELSE Root(n, lo, mid - 1)

\* Vector3.normalize: divideScalar(length() || 1), a zero vector stays zero
Normalize(v) ==
    LET g == Gcd(Gcd(Abs(v.x), Abs(v.y)), Abs(v.z))
    IN IF g = 0 THEN Vec(0, 0, 0, 1)
       ELSE LET x == v.x \div g
                y == v.y \div g
                z == v.z \div g
                len == Root(x * x + y * y + z * z, 1, Abs(x) + Abs(y) + Abs(z))
            IN Vec(x, y, z, len)

\* Vector3.transformDirection by the matrixWorld of the hit object: the
\* object is unrotated, or turned a quarter about the y axis
TransformDirection(v, turned) == IF turned THEN Vec(v.z, v.y, 0 - v.x, v.d) ELSE v

\* useDecalDrag: tangent from the camera's up, or from its forward direction
\* when the normalised cross product is shorter than 0.1
Tangent(cam, normalWorld) ==
    LET tangent == Normalize(Cross(cam.up, normalWorld))
    IN IF LengthSqBelow(tangent, 1, 100)
       THEN Normalize(Cross(cam.dir, normalWorld))
       ELSE tangent

\* a bitangent of the opposite hand
BitangentLeft(normalWorld, tangent) == Normalize(Cross(tangent, normalWorld))

Bitangent(normalWorld, tangent) == Normalize(Cross(normalWorld, tangent))

Axes == {Vec(1, 0, 0, 1), Vec(0 - 1, 0, 0, 1), Vec(0, 1, 0, 1), Vec(0, 0 - 1, 0, 1),
         Vec(0, 0, 1, 1), Vec(0, 0, 0 - 1, 1)}

CameraChoices == {c \in [up : Axes, dir : Axes] : Dot(c.up, c.dir) = 0}

\* face normals in object space: the axes, two normals within 0.1 of the y
\* axis and three oblique ones
NormalChoices ==
    Axes \cup {Vec(44, 483, 0, 485), Vec(0, 483, 0 - 44, 485),
               Vec(3, 4, 0, 5), Vec(0 - 4, 0, 3, 5), Vec(0, 0 - 3, 4, 5)}

\* rays of the perspective camera, as fwd * dir + upw * up: through the
\* centre of the view, and 22.6 degrees below and above it
RayChoices == {[fwd |-> 1, upw |-> 0], [fwd |-> 12, upw |-> 0 - 5], [fwd |-> 12, upw |-> 5]}

\* the nearest face under the pointer: the ray, the normal of the face, the
\* rotation of its mesh and the side of its material
FaceHits ==
    [ray : RayChoices, normal : NormalChoices, turned : BOOLEAN, side : {"front", "double"}]

NormalWorld(hit) == Normalize(TransformDirection(hit.normal, hit.turned))

\* numerator of normal . ray
RayDot(hit) ==
    hit.ray.fwd * Dot(NormalWorld(hit), camera.dir) + hit.ray.upw * Dot(NormalWorld(hit), camera.up)

\* Mesh.raycast: the ray meets the face from its front, or from either
\* side when the material is double-sided
Intersects(hit) == IF hit.side = "double" THEN RayDot(hit) # 0 ELSE RayDot(hit) < 0

ViewInit ==
    /\ strategy = "geometric"
    /\ synced = FALSE
    /\ dragImpl = "hook"
    /\ texts = <<"Hi">>
    /\ logos = <<>>
    /\ assetSelection = NoAsset
    /\ decals = <<>>
    /\ meshes = <<>>
    /\ group = {}
    /\ uvDecals = <<>>
    /\ atlas = <<>>
    /\ activeDragId = NoId
    /\ nextId = 0
    /\ edits = 0
    /\ last = Step("init", NoId, Undef, NoData, FALSE, FALSE)
    /\ events = <<>>
    /\ SessionIdle
    /\ RenderMounted
    /\ NoModelLoaded
    /\ AppMounted
    /\ panel = <<>>
    /\ ViewDefault
    /\ AuxIdle

ViewFrame ==
    /\ events' = <<>>
    /\ UNCHANGED <<texts, logos, assetSelection, decals, meshes, group, uvDecals, atlas,
                   activeDragId, nextId, edits, session, render, check, app, panel, aux>>
    /\ Config

\* OrbitControls turns the camera
OrbitCamera(cam) ==
    /\ cam # camera
    /\ camera' = cam
    /\ last' = Step("orbit", NoId, Undef, NoData, FALSE, FALSE)
    /\ UNCHANGED orientation
    /\ ViewFrame

\* ModelWithDecals.onPointerDown: the record stores the world normal of the
\* hit face (createDecalMesh aligns +z to it, no tangent is built)
PlaceNormal(hit) ==
    /\ Intersects(hit)
    /\ orientation' = [op |-> "place", normal |-> NormalWorld(hit),
                       tangent |-> Vec(0, 0, 0, 1), bitangent |-> Vec(0, 0, 0, 1)]
    /\ last' = Step("placeNormal", NoId, Undef, NoData, FALSE, FALSE)
    /\ UNCHANGED camera
    /\ ViewFrame

\* useDecalDrag.processLatest: the world normal of the hit face and the
\* basis handed to makeBasis
DragBasis(hit) ==
    /\ Intersects(hit)
    /\ LET normalWorld == NormalWorld(hit)
           tangent == Tangent(camera, normalWorld)
       IN orientation' = [op |-> "drag", normal |-> normalWorld, tangent |-> tangent,
                          bitangent |-> Bitangent(normalWorld, tangent)]
    /\ last' = Step("dragBasis", NoId, Undef, NoData, FALSE, FALSE)
    /\ UNCHANGED camera
    /\ ViewFrame

ViewNext ==
    \/ \E cam \in CameraChoices : OrbitCamera(cam)
    \/ \E hit \in FaceHits : PlaceNormal(hit)
    \/ \E hit \in FaceHits : DragBasis(hit)

ViewSpec == ViewInit /\ [][ViewNext]_vars

(***************************************************************************)
(* Raycasts that give the handlers nothing to work on.  A cast is the      *)
(* outcome of raycaster.intersectObjects under the pointer: "miss" for no  *)
(* intersection, "hit" for a mesh face with a uv and a material, and for   *)
(* the uv handlers "noUv" (the nearest hit has no uv), "notMesh" (it is    *)
(* not a Mesh) and "noMaterial" (its mesh has no material).                *)
(***************************************************************************)
Casts ==
    {[kind |-> "miss", hit |-> NoHit]}
    \cup [kind : {"hit", "noUv", "notMesh", "noMaterial"}, hit : HitSet]

\* only a miss makes every handler return
ReturnsOnMiss(cast) == cast.kind = "miss"

\* only the checks of the uv handlers make a handler return
ReturnsOnUvChecks(cast) == strategy = "uv" /\ cast.kind # "hit"

\* the handler returns before it changes anything: no intersection, or in
\* the uv handlers a nearest hit without uv, mesh or material
Returns(cast) == cast.kind = "miss" \/ (strategy = "uv" /\ cast.kind # "hit")

Untouched ==
    /\ events' = <<>>
    /\ UNCHANGED <<texts, logos, assetSelection, decals, meshes, group, uvDecals, atlas,
                   activeDragId, nextId, edits>>
    /\ Fixed

\* pointerdown with an asset armed, the ray giving cast; cors: copying the
\* original texture of the hit material throws
PlaceCast(cast, cors) ==
    /\ cast.kind \notin {"miss", "hit"} => strategy = "uv"
    /\ IF Returns(cast)
       THEN /\ ~cors
            /\ assetSelection # NoAsset
            /\ last' = Step("place", NoId, cast.kind, NoData, FALSE, FALSE)
            /\ Untouched
       ELSE Place(cast.hit, cors, FALSE)

\* pointermove during a drag, the ray giving cast
DragCast(cast) ==
    /\ cast.kind \notin {"miss", "hit"} => strategy = "uv"
    /\ IF Returns(cast)
       THEN /\ activeDragId # NoId
            /\ last' = Step("dragMove", activeDragId, cast.kind, NoData, FALSE, FALSE)
            /\ Untouched
       ELSE DragMove(cast.hit, FALSE)

CastNext ==
    \/ \E type \in {"text", "logo"}, i \in 1..1 : SelectAsset(type, i)
    \/ \E cast \in Casts, cors \in BOOLEAN : PlaceCast(cast, cors)
    \/ \E id \in IdSet : DragStart(id)
    \/ \E cast \in Casts : DragCast(cast)
    \/ DragEnd

CastSpec == Init /\ [][CastNext]_vars

(***************************************************************************)
(* Properties.                                                             *)
(***************************************************************************)
IsCommand(st, action) == st.op = "command" /\ st.action = action

NoRemoved(evs) == \A i \in DOMAIN evs : evs[i].type # "decalRemoved"

\* C1: a successful place makes the registry one longer; delete of an id in
\* the registry makes it one shorter; delete of an id that is not in the
\* registry leaves its length unchanged.
C1_RegistryArithmetic ==
    [][ /\ (last'.op = "place" /\ ~last'.throws) => Len(Registry') = Len(Registry) + 1
        /\ (IsCommand(last', "delete") /\ last'.id \in Ids(Registry))
              => Len(Registry') = Len(Registry) - 1
        /\ (IsCommand(last', "delete") /\ last'.id \notin Ids(Registry))
              => Len(Registry') = Len(Registry) ]_vars

\* C1 case: the second of two placed decals has just been deleted
C1_Witness ==
    /\ IsCommand(last, "delete")
    /\ nextId = 2
    /\ Ids(Registry) = {DecalIds[1]}
    /\ last.id = DecalIds[2]

\* C2: an edit command addressed to a decal of the registry keeps the decal
\* in the registry and emits no decalRemoved; a decal leaves the registry
\* only by a delete command for its id or by clearDecals; an id that enters
\* the registry is one that was never used before.
C2_Lifecycle ==
    [][ /\ (last'.op = "command" /\ last'.action \in EditActions /\ last'.id \in Ids(Registry))
              => (last'.id \in Ids(Registry') /\ NoRemoved(events'))
        /\ \A id \in Ids(Registry) \ Ids(Registry') :
              \/ IsCommand(last', "delete") /\ last'.id = id
              \/ last'.op = "clear"
        /\ \A id \in Ids(Registry') \ Ids(Registry) :
              \A k \in 1..nextId : DecalIds[k] # id ]_vars

RotationOf(rec) == IF strategy = "geometric" THEN rec.rotDeg ELSE rec.rotationDeg

CentreOf(rec) ==
    IF strategy = "geometric" THEN <<rec.position>> ELSE <<rec.px, rec.py>>

SetRotationCmd(d) == [action |-> "setRotation", data |-> [NoData EXCEPT !.rotationDeg = d]]

\* C3: after setRotation(id, d) on a decal of the registry, the decal's
\* record has rotation d and the placement centre it had before.
C3_SetRotation ==
    [][ \A id \in IdSet, d \in RotationChoices :
          (id \in Ids(Registry) /\ Command(id, SetRotationCmd(d), FALSE))
             => /\ id \in Ids(Registry')
                /\ RotationOf(RecordOf(Registry', id)) = d
                /\ CentreOf(RecordOf(Registry', id)) = CentreOf(RecordOf(Registry, id)) ]_vars

\* the layer a uv record stands for: its asset canvas at its placement
RecordLayer(d) ==
    Layer(MakeCanvasForAsset(texts, logos, d.meta,
              [text |-> d.text, font |-> d.font, color |-> d.color, fontSize |-> NoNum]),
          d.px, d.py, RecordSizePx(d), IF d.rotationDeg # NoNum THEN d.rotationDeg ELSE 0, TRUE)

RECURSIVE LayersAt(_, _, _)
LayersAt(ds, mat, xy) ==
    IF ds = <<>> THEN <<>>
    ELSE (IF Head(ds).materialUUID = mat /\ Covers(RecordLayer(Head(ds)), xy)
          THEN <<RecordLayer(Head(ds))>> ELSE <<>>) \o LayersAt(Tail(ds), mat, xy)

\* the base image of the canvas mc with the decals ds of material mat drawn
\* over it, each once, in registry order
Composite(mc, ds, mat) ==
    [xy \in DOMAIN mc.px |-> <<SeedLayer(mc.base)>> \o LayersAt(ds, mat, xy)]

Recomposited(atl, ds) == \A mat \in DOMAIN atl : atl[mat].px = Composite(atl[mat], ds, mat)

\* C4: in the uv strategy every material canvas is the composite of its base
\* image and the decals the registry assigns to the material, each drawn
\* once at the placement of its record.
C4_AtlasIsComposite == strategy = "uv" => Recomposited(atlas, uvDecals)

\* C5: in the uv strategy, after the delete of a decal of the registry every
\* material canvas is the composite of its base image and the remaining
\* decals.
C5_DeleteRecomposites ==
    [][ (strategy = "uv" /\ IsCommand(last', "delete") /\ last'.id \in Ids(uvDecals))
          => Recomposited(atlas', uvDecals') ]_vars

BaseOnly(mc) == [xy \in DOMAIN mc.px |-> <<SeedLayer(mc.base)>>]

\* C6: clearDecals empties the registry and the decal group; in the uv
\* strategy every material canvas is again the image it was seeded with.
C6_ClearAll ==
    [][ last'.op = "clear"
          => /\ Registry' = <<>>
             /\ strategy = "geometric" => group' = {}
             /\ strategy = "uv" => \A mat \in DOMAIN atlas' : atlas'[mat].px = BaseOnly(atlas'[mat]) ]_vars

\* what a geometric engine state shows: each record with the mesh it holds
\* (object identities left out), and the meshes of the scene no record holds
GeoView(g) ==
    [records |-> [i \in DOMAIN g.decals |->
                     [rec |-> [g.decals[i] EXCEPT !.mesh = 0],
                      mesh |-> g.meshes[g.decals[i].mesh],
                      inScene |-> g.decals[i].mesh \in g.group]],
     orphans |-> {g.meshes[m] : m \in g.group \ {g.decals[i].mesh : i \in DOMAIN g.decals}}]

ViewOf(e) == IF strategy = "geometric" THEN GeoView(e) ELSE e

\* C7: in every reachable state, for every edit command with fixed
\* arguments, processing the command twice leaves the records and the visual
\* (mesh inputs, canvas pixels) that processing it once leaves; the same for
\* a decalUpdated detail handled twice by useUVDecals.
C7_Idempotent ==
    /\ \A id \in IdSet, c \in CommandSet :
          c.action \in EditActions =>
             LET once == ApplyCommand(Engine, id, c, FALSE)
                 twice == ApplyCommand(once.g, id, c, FALSE)
             IN ViewOf(twice.g) = ViewOf(once.g)
    /\ strategy = "uv" =>
          \A id \in Ids(uvDecals) : \A payload \in UpdatePayloads(id) :
             LET once == UVOnUpdated(U, synced, texts, logos, payload)
                 twice == UVOnUpdated(once.g, synced, texts, logos, payload)
             IN twice.g = once.g

\* C7 case: setRotation was processed twice in a row for a decal of the
\* geometric registry
C7_Witness ==
    /\ strategy = "geometric"
    /\ IsCommand(last, "setRotation")
    /\ last.again /\ ~last.throws
    /\ last.id \in Ids(decals)
    /\ RecordOf(decals, last.id).rotDeg = last.data.rotationDeg
    /\ meshes[RecordOf(decals, last.id).mesh].geo.rot = last.data.rotationDeg

\* C8: after a content, size or rotation command the texture of the decal
\* is the asset canvas of the record's text, font, colour and font size, and
\* its geometry has the record's point, size and rotation.
C8_VisualFromRecord ==
    [][ (strategy = "geometric" /\ last'.op = "command" /\ last'.action \in EditActions
            /\ ~last'.throws /\ last'.id \in Ids(decals) /\ last'.id \in Ids(decals'))
          => LET rec == RecordOf(decals', last'.id)
                 mesh == meshes'[rec.mesh]
             IN /\ mesh.map = MakeCanvasForAsset(texts, logos, rec.meta,
                                 [text |-> rec.text, font |-> rec.font,
                                  color |-> rec.color, fontSize |-> rec.fontSize])
                /\ mesh.geo.p = SavedPos(rec).p
                /\ mesh.geo.w = rec.sizeForDecal
                /\ mesh.geo.rot = rec.rotDeg ]_vars

\* every record holds a live mesh of the scene, every mesh of the scene is
\* held by a record
Consistent(g) ==
    /\ \A i \in DOMAIN g.decals :
          /\ g.decals[i].mesh \in g.group
          /\ ~g.meshes[g.decals[i].mesh].geoDisposed
          /\ ~g.meshes[g.decals[i].mesh].matDisposed
    /\ \A m \in g.group : \E i \in DOMAIN g.decals : g.decals[i].mesh = m

\* C9: after a step in which the creation of the geometry or of the
\* texture threw, registry and scene are consistent (geometric) and registry
\* and canvases are as before the step (uv).
C9_AtomicOnFailure ==
    [][ last'.throws
          => IF strategy = "geometric" THEN Consistent(G')
             ELSE uvDecals' = uvDecals /\ atlas' = atlas ]_vars

\* C10: a drag step that hits the model leaves the record of the dragged
\* decal at the hit, the visual at the placement, size and rotation of the
\* record, and id, content, size and rotation of the record as they were.
C10_Move ==
    [][ \A hit \in HitSet :
          (activeDragId \in Ids(Registry) /\ DragMove(hit, FALSE)
              /\ (strategy = "uv" => hit.mat \in DOMAIN atlas))
            => /\ activeDragId \in Ids(Registry')
               /\ LET old == RecordOf(Registry, activeDragId)
                      new == RecordOf(Registry', activeDragId)
                  IN IF strategy = "geometric"
                     THEN /\ new.hitObject = hit.obj /\ new.position.p = hit.p /\ new.normal = hit.n
                          /\ new.mesh \in group'
                          /\ ~meshes'[new.mesh].geoDisposed
                          /\ meshes'[new.mesh].map = new.canvas
                          /\ meshes'[new.mesh].geo.obj = hit.obj
                          /\ meshes'[new.mesh].geo.p = hit.p
                          /\ meshes'[new.mesh].geo.n = hit.n
                          /\ meshes'[new.mesh].geo.w = new.sizeForDecal
                          /\ meshes'[new.mesh].geo.rot = new.rotDeg
                          /\ <<new.meta, new.text, new.font, new.color, new.fontSize,
                               new.canvas, new.sizeForDecal, new.rotDeg>>
                             = <<old.meta, old.text, old.font, old.color, old.fontSize,
                                 old.canvas, old.sizeForDecal, old.rotDeg>>
                     ELSE /\ new.materialUUID = hit.mat
                          /\ new.px = DragPx(atlas'[hit.mat], hit)
                          /\ new.py = DragPy(atlas'[hit.mat], hit)
                          /\ <<new.meta, new.text, new.font, new.color, new.sizePx, new.rotationDeg>>
                             = <<old.meta, old.text, old.font, old.color, old.sizePx, old.rotationDeg>> ]_vars


\* the canvas the engine derives again for a record, as updateColor and
\* redrawDecal derive it: from meta and the options stored on the record
Rederived(d) ==
    MakeCanvasForAsset(texts, logos, d.meta,
                       [text |-> d.text, font |-> d.font, color |-> d.color, fontSize |-> NoNum])

AllLoaded == \A k \in DOMAIN logos : logos[k].complete

\* the record was placed from an asset of the lists: its placement canvas
\* shows a text of the list or a loaded logo
PlacedFromAsset(d) ==
    \/ d.canvas.kind = "logo"
    \/ d.canvas.kind = "text" /\ d.canvas.text \in AssetTexts

\* C11: after any additions and deletions of assets, every decal of the
\* registry that was placed from an asset resolves, when its canvas is derived
\* again (all images loaded), to that same asset: never to another asset and
\* never to a missing one.  Stated on the registry of ModelWithDecals, whose
\* records keep the text they were placed with.
C11_StableAssetReference ==
    AllLoaded =>
        \A k \in DOMAIN decals :
            PlacedFromAsset(decals[k]) =>
                /\ Rederived(decals[k]).kind = decals[k].canvas.kind
                /\ Rederived(decals[k]).text = decals[k].canvas.text

\* the registry without the records placed from asset i of the list
WithoutAsset(ds, type, i) ==
    {ds[k].id : k \in {j \in DOMAIN ds : ds[j].meta # [type |-> type, index |-> i]}}

\* C12: deleting a logo or text asset destroys every decal placed from that
\* asset and no other decal.
C12_CascadingAssetDeletion ==
    [][/\ \A i \in 1..Cardinality(AssetTexts) :
              RemoveText(i) => Ids(Registry') = WithoutAsset(Registry, "text", i)
       /\ \A i \in 1..Cardinality(AssetFiles) :
              RemoveLogo(i) => Ids(Registry') = WithoutAsset(Registry, "logo", i)]_vars


\* C13: whenever no drag is active, the orbit controls are enabled and no
\* pointer capture is held: every exit path of a drag (pointer-up, a
\* pointerdown that captured the pointer but started no drag, a registry
\* change with re-subscription mid-drag) releases the capture and re-enables
\* the controls.
C13_DragCancellationScoped ==
    activeDragId = NoId => controlsEnabled /\ ~captureHeld

\* C14: at most one raycast-and-repaint pass runs per animation frame, in
\* every drag implementation, however many pointermove events arrive and
\* however they interleave with pointer-up and pointer-down.
C14_OnePassPerFrame ==
    passes <= 1


IsPrefix(a, b) == Len(a) <= Len(b) /\ SubSeq(b, 1, Len(a)) = a

Near(a, b) == a - b <= 1 /\ b - a <= 1

\* C17: for a hit at uv = (u, v) on a material whose canvas is W x H, the
\* target pixel of the placement and the target pixel of the drag are both
\* (u * W, (1 - v) * H) up to rounding, so both map one uv to one pixel.
\* hit.u and hit.v are in quarters.
C17_SamePixelMapping ==
    \A hit \in HitSet :
        hit.mat \in DOMAIN atlas =>
            LET mc == atlas[hit.mat]
                x == (hit.u * mc.w) \div 4
                y == ((4 - hit.v) * mc.h) \div 4
            IN /\ Near(PlacePx(mc, hit), x) /\ Near(PlacePy(mc, hit), y)
               /\ Near(DragPx(mc, hit), x) /\ Near(DragPy(mc, hit), y)
               /\ Near(PlacePx(mc, hit), DragPx(mc, hit))
               /\ Near(PlacePy(mc, hit), DragPy(mc, hit))


\* C18: a decalCommand whose id is missing, whose action is missing, or whose
\* id is not in the registry is a complete no-op: the registry, the scene or
\* the atlas, the armed asset and the drag are unchanged and no decalRemoved
\* or decalUpdated event is dispatched.
C18_UnknownCommandNoOp ==
    [][\A id \in AnyId, c \in AnyCommand :
          (Command(id, c, FALSE) /\ (id = NoId \/ c.action = Undef \/ id \notin Ids(Registry))) =>
              /\ UNCHANGED <<decals, meshes, group, uvDecals, atlas, assetSelection, activeDragId>>
              /\ events' = <<>>]_vars


\* C19: the report of a loaded model has ok exactly when the model has at
\* least one mesh and every mesh's problem list is empty; summaryProblems is
\* the union of the per-mesh problem lists; a model with zero meshes has ok
\* false and an empty summaryProblems.
C19_ReportAggregate ==
    gltfMeshes # NoModel =>
        /\ Len(report.meshes) = Len(gltfMeshes)
        /\ report.ok = (Len(report.meshes) > 0
                        /\ \A k \in DOMAIN report.meshes : report.meshes[k].problems = <<>>)
        /\ \A p \in {"NO_UVS", "UV_OUT_OF_BOUNDS", "UV_DEGENERATE", "UNIFORMITY_ISSUE",
                     "MULTI_UV_SETS"} :
               p \in report.summaryProblems <=>
                   \E k \in DOMAIN report.meshes :
                       \E j \in DOMAIN report.meshes[k].problems : report.meshes[k].problems[j] = p
        /\ report.summaryProblems \subseteq {"NO_UVS", "UV_OUT_OF_BOUNDS", "UV_DEGENERATE",
                                             "UNIFORMITY_ISSUE", "MULTI_UV_SETS"}
        /\ Len(gltfMeshes) = 0 => ~report.ok /\ report.summaryProblems = {}

\* the report of a model with zero meshes
C19_Witness ==
    /\ gltfMeshes = <<>>
    /\ last.op = "loadModel"
    /\ report.meshes = <<>>
    /\ ~report.ok

\* C20: a mesh without a uv attribute gets exactly the problem list [NO_UVS]
\* and no area analysis (its areas stay 0, no other problem is derived), and
\* the model's report has ok false with NO_UVS in summaryProblems.
C20_NoUvs ==
    gltfMeshes # NoModel =>
        \A k \in DOMAIN gltfMeshes :
            ~gltfMeshes[k].hasUvs =>
                /\ report.meshes[k].problems = <<"NO_UVS">>
                /\ report.meshes[k].uvArea = 0
                /\ report.meshes[k].worldArea = 0
                /\ ~report.meshes[k].uvOutOfBounds
                /\ ~report.ok
                /\ "NO_UVS" \in report.summaryProblems

\* a model of a clean mesh and a mesh without uvs has been checked
C20_Witness ==
    /\ gltfMeshes # NoModel
    /\ Len(gltfMeshes) = 2
    /\ ~gltfMeshes[2].hasUvs
    /\ gltfMeshes[2].worldArea > 0
    /\ gltfMeshes[1].hasUvs
    /\ report.meshes[1].problems = <<>>
    /\ report.meshes[2].problems = <<"NO_UVS">>


EqualAreas(tris) == \A k \in DOMAIN tris : tris[k].uvArea = tris[k].worldArea

\* the meshes of texel density 1: every triangle has the same area in uv
\* space and in world space, and the uv areas add up to more than 1e-10
EqualAreaLists ==
    {tris \in TriangleLists : EqualAreas(tris) /\ MeshOfTriangles(tris).uvArea > UvEpsilon}

\* C21, as stated: a mesh whose every triangle has equal uv-space and
\* world-space area (texel density 1) yields no problems.
C21_EqualAreasNoProblems ==
    [][\A tris \in EqualAreaLists :
          LoadTriangleMesh(tris) => report'.meshes[1].problems = <<>>]_vars

\* C21, amended: a mesh whose every triangle has equal uv-space and
\* world-space area, whose uv area is above 1e-10 and whose uvs all lie in
\* [0, 1], yields no problems, and a model of that mesh alone is ok.
C21_EqualAreasInBoundsNoProblems ==
    [][\A tris \in EqualAreaLists :
          (LoadTriangleMesh(tris) /\ \A k \in DOMAIN tris : ~tris[k].outOfBounds) =>
              /\ report'.meshes[1].problems = <<>>
              /\ report'.ok]_vars

\* a mesh of two triangles of areas 1 and 4 in both spaces, uvs in bounds,
\* has been checked
C21_Witness ==
    /\ last.op = "loadTriangleMesh"
    /\ gltfMeshes = <<[hasUvs |-> TRUE, uvArea |-> 5, worldArea |-> 5, outOfBounds |-> FALSE]>>
    /\ report.meshes[1].problems = <<>>


\* C22: the decision gate is open after a uvCheckResult if and only if
\* the report is not ok, it never shows an ok report, it stays open over
\* every step that is neither the user's choice nor the deletion of the
\* model, a choice closes it, and a deletion of the model clears the
\* stored report and leaves the gate closed.
C22_GateFollowsReport ==
    [][/\ (\E ms \in GltfChoices : UVCheckResult(ms)) => (GateOpen' <=> ~uvReport'.ok)
       /\ GateOpen => ~uvReport.ok
       /\ (GateOpen /\ ~DeleteModel /\ ~(\E b \in BOOLEAN : UvChoice(b))) => GateOpen'
       /\ (\E b \in BOOLEAN : UvChoice(b)) => ~GateOpen'
       /\ DeleteModel => (uvReport' = NoReport /\ ~GateOpen')]_vars

\* a report that is not ok has arrived and the gate is open
C22_Witness ==
    /\ last.op = "uvCheckResult"
    /\ ~uvReport.ok
    /\ GateOpen


\* C23: rejecting at the gate, and confirming Delete Model, leave the
\* model URL null, the text and logo lists empty, no asset armed, the
\* registry of the engine empty and the side-panel list empty, on every
\* cycle of the session; accepting at the gate changes none of them.
C23_RejectTearsDown ==
    [][/\ (DeleteModel \/ UvChoice(FALSE)) =>
              /\ glbUrl' = Null
              /\ texts' = <<>>
              /\ logos' = <<>>
              /\ assetSelection' = NoAsset
              /\ Registry' = <<>>
              /\ panel' = <<>>
       /\ UvChoice(TRUE) =>
              UNCHANGED <<glbUrl, gltfMeshes, texts, logos, assetSelection, decals, meshes,
                          group, uvDecals, atlas, panel>>]_vars


\* C24: for every placement and every drag step, the world normal that is
\* stored has a non-positive dot product with the camera's forward
\* direction.
C24_NormalFacesCamera ==
    [][\A hit \in FaceHits :
          (PlaceNormal(hit) \/ DragBasis(hit)) => Dot(orientation'.normal, camera.dir) <= 0]_vars

IsUnit(v) == LengthSqNum(v) = v.d * v.d

SameVector(a, b) == a.x * b.d = b.x * a.d /\ a.y * b.d = b.y * a.d /\ a.z * b.d = b.z * a.d

\* C25: the tangent, bitangent and normal of a drag step are unit vectors,
\* pairwise orthogonal, and right-handed (tangent x bitangent = normal),
\* for every normal and every camera orientation.
C25_OrthonormalRightHanded ==
    orientation.op = "drag" =>
        /\ IsUnit(orientation.tangent)
        /\ IsUnit(orientation.bitangent)
        /\ IsUnit(orientation.normal)
        /\ Dot(orientation.tangent, orientation.bitangent) = 0
        /\ Dot(orientation.tangent, orientation.normal) = 0
        /\ Dot(orientation.bitangent, orientation.normal) = 0
        /\ SameVector(Cross(orientation.tangent, orientation.bitangent), orientation.normal)

\* a drag step over a face whose normal is parallel to the camera's up, so
\* that the tangent came from the camera's forward direction
C25_Witness ==
    /\ orientation.op = "drag"
    /\ Cross(camera.up, orientation.normal) = Vec(0, 0, 0, 1)
    /\ orientation.tangent = Normalize(Cross(camera.dir, orientation.normal))
    /\ last.op = "dragBasis"

\* C26: whenever the cross product of the camera's up and the normal is
\* shorter than the threshold (nearly parallel, not only exactly parallel),
\* the tangent is the one computed from the camera's forward direction,
\* and the tangent is never zero.
C26_FallbackWhenNearlyParallel ==
    [][\A hit \in FaceHits :
          DragBasis(hit) =>
              /\ LengthSqBelow(Cross(camera.up, NormalWorld(hit)), 1, 100) =>
                     orientation'.tangent = Normalize(Cross(camera.dir, NormalWorld(hit)))
              /\ LengthSqNum(orientation'.tangent) > 0]_vars


\* C27: a raycast that hits nothing is a no-op in placement and in drag:
\* the registry, the scene, the atlases, the side panel and the armed
\* asset are unchanged and no event is dispatched.
C27_MissIsNoOp ==
    [][\A cast \in Casts :
          ((PlaceCast(cast, FALSE) \/ DragCast(cast)) /\ cast.kind = "miss") =>
              /\ UNCHANGED <<decals, meshes, group, uvDecals, atlas, assetSelection,
                             activeDragId, panel>>
              /\ events' = <<>>]_vars

\* a drag of a placed decal has passed over empty space
C27_Witness ==
    /\ last.op = "dragMove"
    /\ last.action = "miss"
    /\ Registry # <<>>

\* C28: a uv placement or drag whose nearest hit has no uv, is not a mesh
\* or has no material, and a uv drag over a material without an atlas,
\* paints nothing, creates no atlas, registers nothing and emits no
\* decalPlaced.
C28_NoUvPaintsNothing ==
    [][\A cast \in Casts :
          (/\ strategy = "uv"
           /\ PlaceCast(cast, FALSE) \/ DragCast(cast)
           /\ \/ cast.kind \in {"noUv", "notMesh", "noMaterial"}
              \/ DragCast(cast) /\ cast.kind = "hit" /\ cast.hit.mat \notin DOMAIN atlas) =>
              /\ UNCHANGED <<atlas, uvDecals>>
              /\ events' = <<>>]_vars

\* a placement was tried on a hit without uv while no atlas existed
C28_Witness ==
    /\ strategy = "uv"
    /\ last.op = "place"
    /\ last.action = "noUv"
    /\ atlas = <<>>

SameButPlacement(a, b) ==
    /\ Len(a) = Len(b)
    /\ \A k \in DOMAIN a : a[k].id = b[k].id

\* C29: a drag step that relocates a decal is published: exactly one
\* decalUpdated with the id of the decal is dispatched and the registry
\* holds the decals it held.
C29_DragStepPublished ==
    [][\A hit \in HitSet :
          (/\ DragMove(hit, FALSE)
           /\ activeDragId \in Ids(Registry)
           /\ <<decals, meshes, uvDecals, atlas>>' # <<decals, meshes, uvDecals, atlas>>) =>
              /\ events' = <<Updated(activeDragId, Undef)>>
              /\ SameButPlacement(Registry, Registry')]_vars


RECURSIVE Children(_)
Children(S) ==
    IF S = {} THEN <<>>
    ELSE LET m == CHOOSE x \in S : \A y \in S : x <= y
         IN <<m>> \o Children(S \ {m})

\* the number of entries of s equal to x
Copies(s, x) == Cardinality({i \in DOMAIN s : s[i] = x})

\* scene.clone(true): the container is in the scene, and with it the model
\* node and the decals group
SceneClone == [exported |-> TRUE, model |-> modelLoaded, decalMeshes |-> Children(group)]

\* exportScene.add(decalsGroupRef.current.clone(true))
GroupCloneAdded(sc) == [sc EXCEPT !.decalMeshes = @ \o Children(group)]

\* useDecalCommands / useUVDecalCommands: the clone of the scene is exported
HookExportScene == SceneClone

\* ModelWithDecals: the clone of the scene and, added to it, a clone of the
\* decals group
InlineExportScene == GroupCloneAdded(SceneClone)

ExportImpls == {"hook", "inline"}

\* the exportGLB event, handled by the hook (impl "hook") or by the handler
\* of ModelWithDecals (impl "inline"); the uv strategy has the hook only
ExportGLB(impl) ==
    /\ modelLoaded
    /\ strategy = "uv" => impl = "hook"
    /\ exportScene' = (IF impl = "hook" THEN HookExportScene ELSE InlineExportScene)
    /\ last' = Step("exportGLB", NoId, impl, NoData, FALSE, FALSE)
    /\ events' = <<>>
    /\ UNCHANGED <<texts, logos, assetSelection, decals, meshes, group, uvDecals, atlas,
                   activeDragId, nextId, edits, session, render, check, app, view,
                   container, handlerDecals, disposals, removals>>
    /\ Config
    /\ Listed

DeleteCommand == [action |-> "delete", data |-> NoData]

GLBNext ==
    \/ \E type \in {"text", "logo"}, i \in 1..1 : SelectAsset(type, i)
    \/ \E hit \in HitSet : Place(hit, FALSE, FALSE)
    \/ \E id \in IdSet : Command(id, DeleteCommand, FALSE)
    \/ \E impl \in ExportImpls : ExportGLB(impl)

GLBSpec == Init /\ [][GLBNext]_vars

\* C31: exportGLB serializes a clone of the scene that holds the model and
\* every decal mesh of the geometric registry exactly once, and leaves the
\* live decals group, the meshes and the registry as they were.
C31_ExportHoldsEachDecalOnce ==
    [][\A impl \in ExportImpls :
          (ExportGLB(impl) /\ strategy = "geometric") =>
              /\ exportScene'.model
              /\ \A i \in DOMAIN decals :
                     Copies(exportScene'.decalMeshes, decals[i].mesh) = 1
              /\ UNCHANGED <<decals, meshes, group>>]_vars

\* the visual of a decal: the geometry and the texture of its mesh
Visual(g, id) ==
    LET m == g.meshes[RecordOf(g.decals, id).mesh]
    IN [geo |-> m.geo, map |-> m.map]

\* C32: the visual built by a placement is the one its record describes: a
\* setSize with the size of the new record, or a setRotation to 0, sent
\* right after the placement rebuilds the same geometry and the same
\* texture, whichever mesh of the model was hit.
C32_PlacedVisualFromRecord ==
    (strategy = "geometric" /\ last.op = "place" /\ ~last.throws) =>
        LET rec == RecordOf(decals, last.id)
            sized == GeoSetSize(G, rec, [NoData EXCEPT !.size = rec.sizeForDecal], FALSE).g
            turned == GeoSetRotation(G, rec, [NoData EXCEPT !.rotationDeg = 0], FALSE).g
        IN /\ Visual(sized, last.id) = Visual(G, last.id)
           /\ Visual(turned, last.id) = Visual(G, last.id)

(***************************************************************************)
(* useUVChecks, the triangle loop with the uvs it reads.  A triangle is    *)
(* [uvs, uvArea, worldArea]: the uv of its three vertices (in quarters,    *)
(* so uv 1 is UvOne) and its areas in uv space and in world space (in      *)
(* units of 1e-10).                                                        *)
(***************************************************************************)
UvOne == 4

\* Infinity, in quarters
UvInfinity == 1000000

UvPoint(x, y) == [x |-> x, y |-> y]

\* three vertices of which at most one leaves [0, 1], in either direction
\* and at either end of the vertex list
UvTriples ==
    {<<UvPoint(0, 0), UvPoint(UvOne, 0), UvPoint(0, UvOne)>>,
     <<UvPoint(UvOne + 1, 2), UvPoint(1, 1), UvPoint(2, 3)>>,
     <<UvPoint(1, 1), UvPoint(2, 0 - 1), UvPoint(2, 3)>>,
     <<UvPoint(1, 1), UvPoint(2, 3), UvPoint(0 - 1, 2)>>,
     <<UvPoint(1, 1), UvPoint(2, 3), UvPoint(3, UvOne + 1)>>}

UvTriangleChoices == [uvs : UvTriples, uvArea : {0, 1, 2, 1000}, worldArea : {1, 600000}]

UvTriangleLists == UNION {[1..n -> UvTriangleChoices] : n \in 0..MaxTriangles}

\* a bounds test that lets the border of the unit square count as outside
OutsideOpenUnitSquare(uv) == uv.x <= 0 \/ uv.x >= UvOne \/ uv.y <= 0 \/ uv.y >= UvOne

\* uv.x < 0 || uv.x > 1 || uv.y < 0 || uv.y > 1
OutsideUnitSquare(uv) == uv.x < 0 \/ uv.x > UvOne \/ uv.y < 0 \/ uv.y > UvOne

\* the loop over the three uvs of a triangle: uvMin, uvMax, uvOutOfBounds
RECURSIVE UvBounds(_, _)
UvBounds(m, uvs) ==
    IF uvs = <<>> THEN m
    ELSE LET uv == Head(uvs)
         IN UvBounds([m EXCEPT !.uvMin = UvPoint(Min(@.x, uv.x), Min(@.y, uv.y)),
                               !.uvMax = UvPoint(Max(@.x, uv.x), Max(@.y, uv.y)),
                               !.outOfBounds = @ \/ OutsideUnitSquare(uv)],
                     Tail(uvs))

\* the loop over the triangles of a mesh that has uvs: the bounds of its
\* uvs and the two sums
RECURSIVE TriangleLoop(_)
TriangleLoop(tris) ==
    IF tris = <<>>
    THEN [hasUvs |-> TRUE, uvArea |-> 0, worldArea |-> 0, outOfBounds |-> FALSE,
          uvMin |-> UvPoint(UvInfinity, UvInfinity),
          uvMax |-> UvPoint(0 - UvInfinity, 0 - UvInfinity)]
    ELSE LET rest == TriangleLoop(SubSeq(tris, 1, Len(tris) - 1))
             t == tris[Len(tris)]
         IN [UvBounds(rest, t.uvs) EXCEPT !.uvArea = @ + t.uvArea,
                                          !.worldArea = @ + t.worldArea]

\* a GLTF of one mesh with uvs and the triangles tris is chosen
LoadUvMesh(tris) ==
    /\ gltfMeshes = NoModel
    /\ gltfMeshes' = <<TriangleLoop(tris)>>
    /\ report' = UVReportOf(<<TriangleLoop(tris)>>)
    /\ last' = Step("loadUvMesh", NoId, Undef, NoData, FALSE, FALSE)
    /\ events' = << [type |-> "uvCheckResult", id |-> NoId, field |-> Undef] >>
    /\ UVCheckFrame

ClassifyNext ==
    \/ \E tris \in UvTriangleLists : LoadUvMesh(tris)
    \/ UnloadModel

ClassifySpec == UVCheckInit /\ [][ClassifyNext]_vars

Problems(k) == {report.meshes[k].problems[j] : j \in DOMAIN report.meshes[k].problems}

\* C33: for a mesh with uvs, UV_DEGENERATE is flagged exactly when the
\* total uv area is at most 1e-10, UNIFORMITY_ISSUE exactly when it is
\* above 1e-10 and sqrt(worldArea / uvArea) is below 0.05 or above 500 (so
\* never together with UV_DEGENERATE), UV_OUT_OF_BOUNDS exactly when a uv
\* coordinate of a triangle vertex lies outside [0, 1], and no other
\* problem is produced.
C33_Classification ==
    (gltfMeshes # NoModel /\ last.op = "loadUvMesh") =>
        LET m == gltfMeshes[1]
            u == m.uvArea
            w == m.worldArea
        IN /\ "UV_DEGENERATE" \in Problems(1) <=> u <= UvEpsilon
           /\ "UNIFORMITY_ISSUE" \in Problems(1) <=>
                  (u > UvEpsilon /\ (400 * w < u \/ w > 250000 * u))
           /\ ~({"UV_DEGENERATE", "UNIFORMITY_ISSUE"} \subseteq Problems(1))
           /\ "UV_OUT_OF_BOUNDS" \in Problems(1) <=>
                  (m.uvMin.x < 0 \/ m.uvMin.y < 0 \/ m.uvMax.x > UvOne \/ m.uvMax.y > UvOne)
           /\ Problems(1) \subseteq {"UV_DEGENERATE", "UNIFORMITY_ISSUE", "UV_OUT_OF_BOUNDS"}

\* a mesh of uv area exactly 1e-10 whose uvs reach the border of the unit
\* square without leaving it has been checked: degenerate, and in bounds
C33_Witness ==
    /\ last.op = "loadUvMesh"
    /\ gltfMeshes # NoModel
    /\ gltfMeshes[1].uvArea = UvEpsilon
    /\ gltfMeshes[1].uvMin = UvPoint(0, 0)
    /\ gltfMeshes[1].uvMax = UvPoint(UvOne, UvOne)
    /\ report.meshes[1].problems = <<"UV_DEGENERATE">>

(***************************************************************************)
(* useModelCommands: the modelCommand handler.                             *)
(* A scale is a rational number, a rotation the list of the turns made     *)
(* since the container had none: [axis, deg], consecutive turns about one  *)
(* axis added up modulo 360.                                               *)
(***************************************************************************)
MaxTurns == 2

\* the largest numerator or denominator of a scale that is zoomed further
MaxTerm == 700

\* n / d in lowest terms with a positive denominator
Reduced(n, d) ==
    LET g == Gcd(Abs(n), Abs(d))
        s == IF d < 0 THEN 0 - 1 ELSE 1
    IN Frac((s * n) \div g, (s * d) \div g)

Times(a, b) == Reduced(a.n * b.n, a.d * b.d)

Less(a, b) == a.n * b.d < b.n * a.d

MinScale == Frac(1, 5)
MaxScale == Frac(5, 1)

\* a clamp without the lower limit
ClampAbove(x, lo, hi) == IF Less(hi, x) THEN hi ELSE x

\* THREE.MathUtils.clamp(value, min, max) = max(min, min(max, value))
Clamp(x, lo, hi) ==
    LET capped == IF Less(hi, x) THEN hi ELSE x
    IN IF Less(capped, lo) THEN lo ELSE capped

\* container.rotateX / rotateY / rotateZ
Turned(turns, axis, deg) ==
    IF turns # <<>> /\ turns[Len(turns)].axis = axis
    THEN LET sum == (turns[Len(turns)].deg + deg) % 360
             front == SubSeq(turns, 1, Len(turns) - 1)
         IN IF sum = 0 THEN front ELSE Append(front, [axis |-> axis, deg |-> sum])
    ELSE IF deg % 360 = 0 THEN turns
    ELSE Append(turns, [axis |-> axis, deg |-> deg % 360])

\* the deltas of the zoom buttons (1.12 and 1 / 1.12), and others
ZoomDeltas == {Frac(28, 25), Frac(25, 28), Frac(1, 10), Frac(10, 1), Frac(0, 1), Frac(0 - 2, 1)}

ModelCommands ==
    {[action |-> "zoom", delta |-> x, axis |-> Undef, deg |-> 0] : x \in ZoomDeltas}
    \cup [action : {"rotate"}, delta : {Frac(1, 1)}, axis : {"x", "y"}, deg : {90, 270}]
    \cup {[action |-> "resetTransform", delta |-> Frac(1, 1), axis |-> Undef, deg |-> 0]}

\* the handler, on the container c
ModelCommandResult(c, cmd) ==
    IF cmd.action = "zoom"
    THEN [c EXCEPT !.scale = Clamp(Times(c.scale, cmd.delta), MinScale, MaxScale)]
    ELSE IF cmd.action = "rotate"
    THEN [c EXCEPT !.turns = Turned(c.turns, cmd.axis, cmd.deg)]
    ELSE IF cmd.action = "resetTransform"
    THEN NewContainer
    ELSE c

(***************************************************************************)
(* The App with its side panel: assets are armed and placed by a click on  *)
(* the model, decals are deleted from DecalList, Reset clears them all.    *)
(***************************************************************************)
\* ModelWithDecals.onPointerDown: the whole handler, with its early return
PointerDownOnModel(hit) ==
    IF assetSelection = NoAsset \/ gltfMeshes = NoModel
    THEN /\ modelLoaded
         /\ last' = Step("place", NoId, "ignored", NoData, FALSE, FALSE)
         /\ Untouched
    ELSE Place(hit, FALSE, FALSE)

\* the delete button of an entry of DecalList: doCommand(id, 'delete')
DeleteOnPanel(id) ==
    /\ \E k \in DOMAIN panel : panel[k] = id
    /\ Command(id, DeleteCommand, FALSE)

\* the Reset button, confirmed: clearDecals, handled by the mounted engine,
\* then modelCommand resetTransform
ResetButton ==
    /\ modelLoaded
    /\ IF gltfMeshes = NoModel
       THEN /\ events' = <<>>
            /\ UNCHANGED <<decals, meshes, group, uvDecals, atlas, activeDragId>>
       ELSE SetEngine(IF strategy = "geometric" THEN GeoClear(G) ELSE UVClear(U), TRUE)
    /\ container' = ModelCommandResult(container,
                       [action |-> "resetTransform", delta |-> Frac(1, 1), axis |-> Undef, deg |-> 0])
    /\ last' = Step("reset", NoId, Undef, NoData, FALSE, FALSE)
    /\ UNCHANGED <<texts, logos, assetSelection, nextId, edits, session, render, check, app,
                   view, exportScene, handlerDecals, disposals, removals>>
    /\ Config
    /\ Listed

PanelNext ==
    \/ ChooseGLB
    \/ \E ms \in {<<Clean>>} : UVCheckResult(ms)
    \/ DeleteModel
    \/ \E t \in AssetTexts : AddTextOnTab(t)
    \/ \E i \in 1..2 : SelectAsset("text", i)
    \/ \E hit \in AssetHits : PointerDownOnModel(hit)
    \/ \E id \in IdSet : DeleteOnPanel(id)
    \/ ResetButton

PanelSpec == AppInit /\ [][PanelNext]_vars

\* C34: in the geometric engine an asset that is armed gives at most one
\* decal: a step adds a decal only while an asset is armed and a model is
\* loaded, it adds one, dispatches decalPlaced and then
\* clearAssetSelection and leaves no asset armed; a click on the model
\* with no asset armed adds nothing and dispatches nothing.
C34_OneDecalPerArming ==
    [][strategy = "geometric" =>
          /\ Len(decals') > Len(decals) =>
                 /\ assetSelection # NoAsset
                 /\ gltfMeshes # NoModel
                 /\ Len(decals') = Len(decals) + 1
                 /\ events' = << [type |-> "decalPlaced", id |-> decals'[Len(decals')].id,
                                  field |-> Undef],
                                 [type |-> "clearAssetSelection", id |-> NoId, field |-> Undef] >>
                 /\ assetSelection' = NoAsset
          /\ \A hit \in AssetHits :
                 (PointerDownOnModel(hit) /\ assetSelection = NoAsset) =>
                     /\ UNCHANGED <<decals, meshes, group>>
                     /\ events' = <<>>]_vars

\* a decal was placed and the next click on the model was ignored
C34_Witness ==
    /\ strategy = "geometric"
    /\ last.op = "place"
    /\ last.action = "ignored"
    /\ gltfMeshes # NoModel
    /\ Len(decals) = 1
    /\ assetSelection = NoAsset

PanelIds == {panel[k] : k \in DOMAIN panel}

\* C35: after every place, delete, Reset and deletion of the model, DecalList
\* shows exactly the ids of the engine's registry.
C35_PanelMirrorsRegistry == PanelIds = Ids(Registry)

(***************************************************************************)
(* useDecals between renders.  The decalCommand handler is subscribed by   *)
(* an effect on [decals]: it works on the decals array of the render that  *)
(* subscribed it until the next render has been committed.                 *)
(***************************************************************************)
MaxDeletes == 3

\* a render is committed: the effect cleans up and subscribes a handler
\* that closes over the current decals
CommitRender ==
    /\ strategy = "geometric"
    /\ handlerDecals # decals
    /\ handlerDecals' = decals
    /\ last' = Step("commit", NoId, Undef, NoData, FALSE, FALSE)
    /\ events' = <<>>
    /\ UNCHANGED <<texts, logos, assetSelection, decals, meshes, group, uvDecals, atlas,
                   activeDragId, nextId, edits, session, render, check, app, view,
                   exportScene, container, disposals, removals>>
    /\ Config
    /\ Listed

\* decalCommand delete, handled by the subscribed handler: the record is
\* looked up in the array the handler closed over, its mesh resources are
\* disposed, the mesh leaves the group, setDecals filters the current
\* registry and decalRemoved is dispatched
HandleDelete(id) ==
    /\ strategy = "geometric"
    /\ Len(disposals) < MaxDeletes
    /\ last' = Step("command", id, "delete", NoData, FALSE, FALSE)
    /\ IF id \notin Ids(handlerDecals)
       THEN /\ events' = <<>>
            /\ UNCHANGED <<decals, meshes, group, disposals, removals>>
       ELSE /\ disposals' = Append(disposals, id)
            /\ removals' = Append(removals, id)
            /\ events' = <<Removed(id)>>
            /\ IF id \in Ids(decals)
               THEN LET r == GeoDelete(G, RecordOf(decals, id))
                    IN /\ decals' = r.g.decals
                       /\ meshes' = r.g.meshes
                       /\ group' = r.g.group
               ELSE UNCHANGED <<decals, meshes, group>>
    /\ UNCHANGED <<texts, logos, assetSelection, uvDecals, atlas, activeDragId, nextId, edits,
                   session, render, check, app, view, exportScene, container, handlerDecals>>
    /\ Config
    /\ Listed

DeleteNext ==
    \/ \E type \in {"text", "logo"}, i \in 1..1 : SelectAsset(type, i)
    \/ \E hit \in HitSet : Place(hit, FALSE, FALSE)
    \/ CommitRender
    \/ \E id \in IdSet : HandleDelete(id)

DeleteSpec == Init /\ [][DeleteNext]_vars

\* C36: whatever the order of the commands and of the renders, the mesh
\* resources of a decal are disposed at most once and at most one
\* decalRemoved is dispatched for its id.
C36_DeleteOnce ==
    \A id \in IdSet : Copies(disposals, id) <= 1 /\ Copies(removals, id) <= 1

\* the entry of its list an armed selection stands for, or Undef
ArmedAsset(sel, textsNow, logosNow) ==
    IF sel.type = "text" /\ sel.index \in DOMAIN textsNow THEN textsNow[sel.index]
    ELSE IF sel.type = "logo" /\ sel.index \in DOMAIN logosNow THEN logosNow[sel.index].file
    ELSE Undef

\* C37: after every add, select and delete of a text or a logo the armed
\* selection is null or the index of an existing entry of the list of its
\* type, and a selection that a step leaves armed stands for the same text
\* or logo file after the step as before it.
C37_ArmedSelectionValid ==
    [][/\ assetSelection' # NoAsset =>
              ArmedAsset(assetSelection', texts', logos') # Undef
       /\ (assetSelection # NoAsset /\ assetSelection' = assetSelection) =>
              ArmedAsset(assetSelection', texts', logos') =
                  ArmedAsset(assetSelection, texts, logos)]_vars

(***************************************************************************)
(* A pointerdown on the canvas while an asset may be armed: the drag       *)
(* handler of the mounted implementation and the placement handler both    *)
(* receive it.                                                             *)
(***************************************************************************)
\* the placement handler: it returns while no asset is armed
PlacementPointerDown(hit) ==
    IF assetSelection = NoAsset
    THEN /\ last' = Step("place", NoId, "ignored", NoData, FALSE, FALSE)
         /\ Untouched
    ELSE Place(hit, FALSE, FALSE)

PressNext ==
    \/ \E i \in 1..1 : SelectAsset("text", i)
    \/ \E target \in Targets : PointerDown(target)
    \/ PointerUp
    \/ \E hit \in HitSet : PlacementPointerDown(hit)

PressSpec == DragInit /\ [][PressNext]_vars

\* C38: a pointerdown does not both place a decal and start a drag: while
\* an asset is armed the drag handler (geometric or uv) acquires no pointer
\* capture, does not disable the orbit controls and sets no active drag id,
\* and while no asset is armed the placement handler creates nothing.
C38_PlaceOrDrag ==
    [][/\ \A target \in Targets :
              (PointerDown(target) /\ assetSelection # NoAsset) =>
                  /\ captureHeld' = captureHeld
                  /\ controlsEnabled' = controlsEnabled
                  /\ activeDragId' = activeDragId
       /\ \A hit \in HitSet :
              (PlacementPointerDown(hit) /\ assetSelection = NoAsset) =>
                  UNCHANGED <<decals, meshes, group, uvDecals, atlas, nextId>>]_vars

\* a modelCommand event, handled by useModelCommands
ModelCommand(cmd) ==
    /\ modelLoaded
    /\ cmd.action = "zoom" => container.scale.n <= MaxTerm /\ container.scale.d <= MaxTerm
    /\ cmd.action = "rotate" => Len(Turned(container.turns, cmd.axis, cmd.deg)) <= MaxTurns
    /\ container' = ModelCommandResult(container, cmd)
    /\ last' = Step("modelCommand", NoId, cmd.action, NoData, FALSE, FALSE)
    /\ events' = <<>>
    /\ UNCHANGED <<texts, logos, assetSelection, decals, meshes, group, uvDecals, atlas,
                   activeDragId, nextId, edits, session, render, check, app, view,
                   exportScene, handlerDecals, disposals, removals>>
    /\ Config
    /\ Listed

ModelCommandNext ==
    \/ \E i \in 1..1 : SelectAsset("text", i)
    \/ \E hit \in AssetHits : Place(hit, FALSE, FALSE)
    \/ \E cmd \in ModelCommands : ModelCommand(cmd)

ModelCommandSpec == Init /\ [][ModelCommandNext]_vars

InScaleRange(x) == ~Less(x, MinScale) /\ ~Less(MaxScale, x)

====
